---------------------------- MODULE Spec2Model ----------------------------
(***************************************************************************)
(* A model of the toon-lsp language engine: the lexer (parser/scanner.rs), *)
(* the error-recovering parser (parser/mod.rs) and the concurrent document *)
(* store of the language server (lsp/state.rs, lsp/server.rs).             *)
(*                                                                         *)
(* Source text is a sequence of characters, each a one-character string.   *)
(* A character outside ASCII is written by its code point ("U+00E9").      *)
(***************************************************************************)
EXTENDS Integers, Sequences, FiniteSets, TLC

(***************************************************************************)
(* Characters                                                              *)
(***************************************************************************)
NL == "\n"
TAB == "\t"
CR == "\r"
QUOTE == "\""
BACKSLASH == "\\"
NoChar == "<none>"

Digits == {"0", "1", "2", "3", "4", "5", "6", "7", "8", "9"}
Lower ==
    {"a", "b", "c", "d", "e", "f", "g", "h", "i", "j", "k", "l", "m",
     "n", "o", "p", "q", "r", "s", "t", "u", "v", "w", "x", "y", "z"}
Upper ==
    {"A", "B", "C", "D", "E", "F", "G", "H", "I", "J", "K", "L", "M",
     "N", "O", "P", "Q", "R", "S", "T", "U", "V", "W", "X", "Y", "Z"}
AsciiAlphanumeric == Digits \cup Lower \cup Upper
IdentStart == Lower \cup Upper \cup {"_"}
IdentChars == AsciiAlphanumeric \cup {"_"}
Structural == {":", ",", "[", "]", "{", "}", "-"}

\* char::len_utf8 and char::len_utf16 of the characters the model uses
Utf8Len(ch) ==
    CASE ch = "U+00E9" -> 2
      [] ch = "U+4E2D" -> 3
      [] ch = "U+1F600" -> 4
      [] OTHER -> 1
Utf16Len(ch) == IF ch = "U+1F600" THEN 2 ELSE 1

(***************************************************************************)
(* Positions and spans (ast/span.rs)                                       *)
(***************************************************************************)
Position(line, column, offset) ==
    [line |-> line, column |-> column, offset |-> offset]
SpanNew(start, end) == [start |-> start, end |-> end]
SpanPoint(pos) == SpanNew(pos, pos)
SpanMergeEndsSwapped(a, b) ==
    SpanNew(IF a.end.offset >= b.end.offset THEN a.end ELSE b.end,
            IF a.start.offset <= b.start.offset THEN a.start ELSE b.start)
SpanMerge(a, b) ==
    SpanNew(IF a.start.offset <= b.start.offset THEN a.start ELSE b.start,
            IF a.end.offset >= b.end.offset THEN a.end ELSE b.end)

(***************************************************************************)
(* Scanner (parser/scanner.rs).  pos counts the characters consumed.       *)
(***************************************************************************)
Token(kind, text, msg, span) ==
    [kind |-> kind, text |-> text, msg |-> msg, span |-> span]

ScannerNew ==
    [pos |-> 0, line |-> 0, column |-> 0, offset |-> 0,
     indent_stack |-> <<0>>, pending_dedents |-> 0,
     at_line_start |-> TRUE, done |-> FALSE]

CurrentPosition(s) == Position(s.line, s.column, s.offset)

ScPeek(src, s) == IF s.pos < Len(src) THEN src[s.pos + 1] ELSE NoChar
ScPeekNext(src, s) == IF s.pos + 1 < Len(src) THEN src[s.pos + 2] ELSE NoChar

ScAdvance(src, s) ==
    IF s.pos < Len(src)
    THEN LET ch == src[s.pos + 1]
         IN [s EXCEPT !.pos = @ + 1,
                      !.offset = @ + Utf8Len(ch),
                      !.line = IF ch = NL THEN @ + 1 ELSE @,
                      !.column = IF ch = NL THEN 0
                                 ELSE IF ch # CR THEN @ + Utf16Len(ch) ELSE @]
    ELSE s

\* while let Some(ch) = self.peek() { if ch is in set { advance } else break }
RECURSIVE AdvanceWhileIn(_, _, _)
AdvanceWhileIn(src, s, set) ==
    IF ScPeek(src, s) \in set
    THEN AdvanceWhileIn(src, ScAdvance(src, s), set)
    ELSE s

SkipWhitespace(src, s) == AdvanceWhileIn(src, s, {" ", TAB, CR})

RECURSIVE CountLeadingSpaces(_, _, _, _)
CountLeadingSpaces(src, s, count, has_tab) ==
    LET ch == ScPeek(src, s)
    IN IF ch = " " THEN CountLeadingSpaces(src, ScAdvance(src, s), count + 1, has_tab)
       ELSE IF ch = TAB THEN CountLeadingSpaces(src, ScAdvance(src, s), count, TRUE)
       ELSE [s |-> s, count |-> count, has_tab |-> has_tab]

MakeToken(s, kind, text, msg, start) ==
    Token(kind, text, msg, SpanNew(start, CurrentPosition(s)))

Last(seq) == seq[Len(seq)]
Front(seq) == SubSeq(seq, 1, Len(seq) - 1)

\* a loop that also pops the level equal to spaces
RECURSIVE PopIndentsThroughEqual(_, _)
PopIndentsThroughEqual(s, spaces) ==
    IF Len(s.indent_stack) > 0 /\ Last(s.indent_stack) >= spaces
    THEN PopIndentsThroughEqual([s EXCEPT !.indent_stack = Front(@),
                                          !.pending_dedents = @ + 1], spaces)
    ELSE s

\* a loop that pops one level only
PopIndentsOnce(s, spaces) ==
    IF Len(s.indent_stack) > 0 /\ Last(s.indent_stack) > spaces
    THEN [s EXCEPT !.indent_stack = Front(@), !.pending_dedents = @ + 1]
    ELSE s

\* while let Some(&top) = stack.last() { if top <= spaces {break}; pop; pending += 1 }
RECURSIVE PopIndents(_, _)
PopIndents(s, spaces) ==
    IF Len(s.indent_stack) > 0 /\ Last(s.indent_stack) > spaces
    THEN PopIndents([s EXCEPT !.indent_stack = Front(@),
                              !.pending_dedents = @ + 1], spaces)
    ELSE s

\* Some(token) is [some |-> TRUE, tok |-> token]; None leaves tok unused
NoToken == Token("None", <<>>, "", SpanPoint(Position(0, 0, 0)))

\* handle_indentation once the leading spaces are counted
HandleCounted(s, spaces, has_tab, start) ==
    LET current_indent == IF Len(s.indent_stack) > 0 THEN Last(s.indent_stack) ELSE 0
    IN IF has_tab
       THEN [s |-> s, some |-> TRUE,
             tok |-> MakeToken(s, "Error", <<>>, "Tabs not allowed in indentation", start)]
       ELSE IF spaces > current_indent
       THEN LET s1 == [s EXCEPT !.indent_stack = Append(@, spaces)]
            IN [s |-> s1, some |-> TRUE,
                tok |-> MakeToken(s1, "Indent", <<>>, "", start)]
       ELSE IF spaces < current_indent
       THEN LET s1 == PopIndents(s, spaces)
            IN IF (Len(s1.indent_stack) = 0 \/ Last(s1.indent_stack) # spaces)
                  /\ spaces # 0
               THEN [s |-> s1, some |-> TRUE,
                     tok |-> MakeToken(s1, "Error", <<>>, "Indentation mismatch", start)]
               ELSE IF s1.pending_dedents > 0
               THEN LET s2 == [s1 EXCEPT !.pending_dedents = @ - 1]
                    IN [s |-> s2, some |-> TRUE,
                        tok |-> MakeToken(s2, "Dedent", <<>>, "", start)]
               ELSE [s |-> s1, some |-> FALSE, tok |-> NoToken]
       ELSE [s |-> s, some |-> FALSE, tok |-> NoToken]

HandleIndentation(src, s0) ==
    LET start == CurrentPosition(s0)
        Counted(c) == HandleCounted(c.s, c.count, c.has_tab, start)
    IN Counted(CountLeadingSpaces(src, s0, 0, FALSE))

StructuralKind(ch) ==
    CASE ch = ":" -> "Colon"
      [] ch = "," -> "Comma"
      [] ch = "[" -> "LeftBracket"
      [] ch = "]" -> "RightBracket"
      [] ch = "{" -> "LeftBrace"
      [] ch = "}" -> "RightBrace"
      [] ch = "-" -> "Dash"

ScanStructural(src, s, ch) ==
    LET s1 == ScAdvance(src, s)
    IN [s |-> s1, tok |-> MakeToken(s1, StructuralKind(ch), <<>>, "", CurrentPosition(s))]

ScanNewline(src, s) ==
    LET s1 == [ScAdvance(src, s) EXCEPT !.at_line_start = TRUE]
    IN [s |-> s1, tok |-> MakeToken(s1, "Newline", <<>>, "", CurrentPosition(s))]

ScanIdentifierOrKeyword(src, s) ==
    LET s1 == AdvanceWhileIn(src, s, IdentChars)
        text == SubSeq(src, s.pos + 1, s1.pos)
        kind == CASE text = <<"t", "r", "u", "e">> -> "True"
                  [] text = <<"f", "a", "l", "s", "e">> -> "False"
                  [] text = <<"n", "u", "l", "l">> -> "Null"
                  [] OTHER -> "Identifier"
    IN [s |-> s1,
        tok |-> MakeToken(s1, kind, IF kind = "Identifier" THEN text ELSE <<>>, "",
                          CurrentPosition(s))]

IsNumberStart(src, s) ==
    \/ ScPeek(src, s) \in Digits
    \/ ScPeek(src, s) = "-" /\ ScPeekNext(src, s) \in Digits

ScanNumber(src, s) ==
    LET start == CurrentPosition(s)
        \* leading zero like "05": a string
        StringToken(s3) ==
            [s |-> s3,
             tok |-> MakeToken(s3, "String", SubSeq(src, s.pos + 1, s3.pos), "", start)]
        NumberToken(s4) ==
            [s |-> s4,
             tok |-> MakeToken(s4, "Number", SubSeq(src, s.pos + 1, s4.pos), "", start)]
        Fraction(s2) == IF ScPeek(src, s2) = "." /\ ScPeekNext(src, s2) \in Digits
                        THEN AdvanceWhileIn(src, ScAdvance(src, s2), Digits)
                        ELSE s2
        Sign(a) == IF ScPeek(src, a) \in {"+", "-"} THEN ScAdvance(src, a) ELSE a
        Exponent(s3) == IF ScPeek(src, s3) \in {"e", "E"}
                        THEN AdvanceWhileIn(src, Sign(ScAdvance(src, s3)), Digits)
                        ELSE s3
        AfterInteger(leading0, s2) ==
            IF leading0 /\ ScPeek(src, s2) \in Digits
            THEN StringToken(AdvanceWhileIn(src, s2, AsciiAlphanumeric \cup {".", "_"}))
            ELSE NumberToken(Exponent(Fraction(s2)))
        Integer(s1) ==
            IF ScPeek(src, s1) = "0" THEN AfterInteger(TRUE, ScAdvance(src, s1))
            ELSE AfterInteger(FALSE, AdvanceWhileIn(src, s1, Digits))
    IN Integer(IF ScPeek(src, s) = "-" THEN ScAdvance(src, s) ELSE s)

EscapeValue(ch) ==
    CASE ch = "n" -> NL
      [] ch = "r" -> CR
      [] ch = "t" -> TAB
      [] ch = QUOTE -> QUOTE
      [] ch = BACKSLASH -> BACKSLASH

\* the loop of scan_quoted_string, after the opening quote
RECURSIVE QuotedLoop(_, _, _, _)
QuotedLoop(src, s, value, start) ==
    LET ch == ScPeek(src, s)
    IN IF ch = NoChar \/ ch = NL
       THEN [s |-> s,
             tok |-> MakeToken(s, "Error", <<>>, "Unterminated string literal", start)]
       ELSE IF ch = QUOTE
       THEN LET s1 == ScAdvance(src, s)
            IN [s |-> s1, tok |-> MakeToken(s1, "String", value, "", start)]
       ELSE IF ch = BACKSLASH
       THEN LET s1 == ScAdvance(src, s)
                e == ScPeek(src, s1)
            IN IF e \in {"n", "r", "t", QUOTE, BACKSLASH}
               THEN QuotedLoop(src, ScAdvance(src, s1), Append(value, EscapeValue(e)), start)
               ELSE IF e = NoChar
               THEN [s |-> s1,
                     tok |-> MakeToken(s1, "Error", <<>>, "Unterminated escape sequence", start)]
               ELSE [s |-> s1,
                     tok |-> MakeToken(s1, "Error", <<>>, "Invalid escape sequence", start)]
       ELSE QuotedLoop(src, ScAdvance(src, s), Append(value, ch), start)

ScanQuotedString(src, s) ==
    QuotedLoop(src, ScAdvance(src, s), <<>>, CurrentPosition(s))

\* next_token after the pending dedents and the indentation are dealt with
ScanTokenAt(src, s) ==
    LET start == CurrentPosition(s)
        ch == ScPeek(src, s)
    IN IF ch = NoChar THEN [s |-> s, tok |-> MakeToken(s, "Eof", <<>>, "", start)]
       ELSE IF IsNumberStart(src, s) THEN ScanNumber(src, s)
       ELSE IF ch \in Structural THEN ScanStructural(src, s, ch)
       ELSE IF ch = NL THEN ScanNewline(src, s)
       ELSE IF ch = QUOTE THEN ScanQuotedString(src, s)
       ELSE IF ch \in IdentStart THEN ScanIdentifierOrKeyword(src, s)
       ELSE LET s1 == ScAdvance(src, s)
            IN [s |-> s1, tok |-> MakeToken(s1, "Error", <<>>, "Unexpected character", start)]

ScanToken(src, s0) == ScanTokenAt(src, SkipWhitespace(src, s0))

NextToken(src, s) ==
    IF s.pending_dedents > 0
    THEN LET s1 == [s EXCEPT !.pending_dedents = @ - 1]
         IN [s |-> s1, tok |-> MakeToken(s1, "Dedent", <<>>, "", CurrentPosition(s1))]
    ELSE IF s.at_line_start
    THEN LET AfterIndentation(h) ==
                 IF h.some THEN [s |-> h.s, tok |-> h.tok] ELSE ScanToken(src, h.s)
         IN AfterIndentation(HandleIndentation(src, [s EXCEPT !.at_line_start = FALSE]))
    ELSE ScanToken(src, s)

RECURSIVE ScanAllFrom(_, _, _)
ScanAllFrom(src, s, tokens) ==
    LET Collect(n) == IF n.tok.kind = "Eof" THEN Append(tokens, n.tok)
                      ELSE ScanAllFrom(src, n.s, Append(tokens, n.tok))
    IN Collect(NextToken(src, s))

ScanAll(src) == ScanAllFrom(src, ScannerNew, <<>>)

(***************************************************************************)
(* Parser (parser/mod.rs).  The parser state p holds the position in the   *)
(* token vector, the error list and the recovering flag.  hang records     *)
(* that a loop repeats an iteration that changes nothing: the call never   *)
(* returns, and what its callers would compute afterwards is not observed. *)
(***************************************************************************)
NoContext == "<none>"
ParseError(kind, span, context) == [kind |-> kind, span |-> span, context |-> context]

ParserNew(toks) == [position |-> 0, errors |-> <<>>, recovering |-> FALSE, hang |-> FALSE]

Current(toks, p) ==
    IF p.position < Len(toks) THEN toks[p.position + 1] ELSE toks[Len(toks)]
HasPeek(toks, p) == p.position + 1 < Len(toks)
PeekTok(toks, p) == toks[p.position + 2]
Advance(toks, p) ==
    IF p.position < Len(toks) THEN [p EXCEPT !.position = @ + 1] ELSE p
IsAtEnd(toks, p) == Current(toks, p).kind = "Eof"
Check(toks, p, kind) == Current(toks, p).kind = kind

RECURSIVE SkipNewlines(_, _)
SkipNewlines(toks, p) ==
    IF Current(toks, p).kind = "Newline" /\ p.position < Len(toks)
    THEN SkipNewlines(toks, Advance(toks, p))
    ELSE p

\* Parser::error and Parser::error_with_context: record the error
PushError(p, err) == [p EXCEPT !.errors = Append(@, err)]

RECURSIVE SyncLoop(_, _)
SyncLoop(toks, p) ==
    IF IsAtEnd(toks, p) THEN [p EXCEPT !.recovering = FALSE]
    ELSE IF Current(toks, p).kind \in {"Newline", "Dedent", "Eof"}
    THEN [(IF Current(toks, p).kind = "Newline" THEN Advance(toks, p) ELSE p)
            EXCEPT !.recovering = FALSE]
    ELSE SyncLoop(toks, Advance(toks, p))

Synchronize(toks, p) == SyncLoop(toks, [p EXCEPT !.recovering = TRUE])

\* Result<T, ParseError>: val is the node (or entry) when ok, the error otherwise
Ok(p, val) == [p |-> p, ok |-> TRUE, val |-> val]
Err(p, err) == [p |-> p, ok |-> FALSE, val |-> err]
\* Err(self.error(kind, span))
ErrRecorded(p, kind, span) ==
    Err(PushError(p, ParseError(kind, span, NoContext)), ParseError(kind, span, NoContext))

(***************************************************************************)
(* AST nodes (ast/node.rs)                                                 *)
(***************************************************************************)
NodeString(value, span) == [kind |-> "String", value |-> value, span |-> span]
NodeNumber(value, span) == [kind |-> "Number", value |-> value, span |-> span]
NodeBool(value, span) == [kind |-> "Bool", value |-> value, span |-> span]
NodeNull(span) == [kind |-> "Null", span |-> span]
NodeObject(entries, span) == [kind |-> "Object", entries |-> entries, span |-> span]
NodeArray(items, form, span) ==
    [kind |-> "Array", items |-> items, form |-> form, span |-> span]
NodeDocument(children, span) ==
    [kind |-> "Document", children |-> children, span |-> span]
ObjectEntry(key, key_span, value) ==
    [key |-> key, key_span |-> key_span, value |-> value]

DigitValue(ch) ==
    CASE ch = "0" -> 0 [] ch = "1" -> 1 [] ch = "2" -> 2 [] ch = "3" -> 3
      [] ch = "4" -> 4 [] ch = "5" -> 5 [] ch = "6" -> 6 [] ch = "7" -> 7
      [] ch = "8" -> 8 [] ch = "9" -> 9

AllDigits(text) == Len(text) > 0 /\ \A i \in 1..Len(text) : text[i] \in Digits

RECURSIVE DecimalValue(_)
DecimalValue(text) ==
    IF text = <<>> THEN 0
    ELSE 10 * DecimalValue(Front(text)) + DigitValue(Last(text))

\* parse_number_value; the numerals of the model are short, so the integer
\* conversions cannot overflow
ParseNumberValue(text) ==
    IF \E i \in 1..Len(text) : text[i] \in {".", "e", "E"}
    THEN IF Last(text) \in Digits
         THEN [ok |-> TRUE, val |-> [tag |-> "Float", int |-> 0, raw |-> text]]
         ELSE [ok |-> FALSE, val |-> "InvalidNumber"]
    ELSE IF text[1] = "-"
    THEN [ok |-> TRUE,
          val |-> [tag |-> "NegInt", int |-> 0 - DecimalValue(Tail(text)), raw |-> text]]
    ELSE [ok |-> TRUE, val |-> [tag |-> "PosInt", int |-> DecimalValue(text), raw |-> text]]

(***************************************************************************)
(* Primitive parsing                                                       *)
(***************************************************************************)
ParseNumber(toks, p) ==
    LET token == Current(toks, p)
        p1 == Advance(toks, p)
        v == ParseNumberValue(token.text)
    IN IF token.kind = "Number"
       THEN IF v.ok THEN Ok(p1, NodeNumber(v.val, token.span))
            ELSE Err(p1, ParseError("InvalidNumber", token.span, NoContext))
       ELSE Err(p1, ParseError("ExpectedValue", token.span, NoContext))

ParseString(toks, p) ==
    LET token == Current(toks, p)
        p1 == Advance(toks, p)
    IN IF token.kind = "String" THEN Ok(p1, NodeString(token.text, token.span))
       ELSE Err(p1, ParseError("ExpectedValue", token.span, NoContext))

ParsePrimitive(toks, p) ==
    LET token == Current(toks, p)
        p1 == Advance(toks, p)
    IN CASE token.kind = "True" -> Ok(p1, NodeBool(TRUE, token.span))
         [] token.kind = "False" -> Ok(p1, NodeBool(FALSE, token.span))
         [] token.kind = "Null" -> Ok(p1, NodeNull(token.span))
         [] OTHER -> Err(p1, ParseError("ExpectedValue", token.span, NoContext))

\* text.trim(): the collected text holds no leading or trailing white space
\* except what a quoted string token carries
WhiteSpace == {" ", TAB, NL, CR}
RECURSIVE TrimStart(_)
TrimStart(text) ==
    IF text # <<>> /\ text[1] \in WhiteSpace THEN TrimStart(Tail(text)) ELSE text
RECURSIVE TrimEnd(_)
TrimEnd(text) ==
    IF text # <<>> /\ Last(text) \in WhiteSpace THEN TrimEnd(Front(text)) ELSE text
Trim(text) == TrimEnd(TrimStart(text))

RECURSIVE UnquotedLoop(_, _, _, _)
UnquotedLoop(toks, p, text, end_span) ==
    LET cur == Current(toks, p)
        sep == IF text # <<>> THEN <<" ">> ELSE <<>>
    IN IF IsAtEnd(toks, p) \/ cur.kind \in {"Newline", "Dedent", "Eof"}
       THEN [p |-> p, text |-> text, end_span |-> end_span]
       ELSE IF cur.kind \in {"Identifier", "Number", "String"}
       THEN UnquotedLoop(toks, Advance(toks, p), text \o sep \o cur.text, cur.span)
       ELSE IF cur.kind = "Colon"
       THEN UnquotedLoop(toks, Advance(toks, p), Append(text, ":"), cur.span)
       ELSE IF cur.kind = "Comma"
       THEN UnquotedLoop(toks, Advance(toks, p), Append(text, ","), cur.span)
       ELSE [p |-> p, text |-> text, end_span |-> end_span]

ParseUnquotedString(toks, p) ==
    LET start_span == Current(toks, p).span
        l == UnquotedLoop(toks, p, <<>>, start_span)
    IN Ok(l.p, NodeString(Trim(l.text), SpanMerge(start_span, l.end_span)))

ParseNestedValue(toks, p) == ParseUnquotedString(toks, p)

ParseArrayHeader(toks, p) ==
    ErrRecorded(p, "UnexpectedToken", Current(toks, p).span)

(***************************************************************************)
(* Array headers and the array forms that follow a key                     *)
(***************************************************************************)
\* while !matches!(current, RightBrace | Eof) {
\*     if Identifier { push; advance }  if Comma { advance } }
\* An iteration that meets neither an identifier nor a comma leaves the
\* parser as it was, so the loop repeats it for ever.
RECURSIVE FieldsLoop(_, _, _)
FieldsLoop(toks, p, fields) ==
    IF Current(toks, p).kind \in {"RightBrace", "Eof"}
    THEN [p |-> p, fields |-> fields]
    ELSE LET isId == Current(toks, p).kind = "Identifier"
             f1 == IF isId THEN Append(fields, Current(toks, p).text) ELSE fields
             p1 == IF isId THEN Advance(toks, p) ELSE p
             p2 == IF Current(toks, p1).kind = "Comma" THEN Advance(toks, p1) ELSE p1
         IN IF p2 = p /\ f1 = fields
            THEN [p |-> [p EXCEPT !.hang = TRUE], fields |-> fields]
            ELSE FieldsLoop(toks, p2, f1)

\* the literal values an inline array item or a tabular cell may be
IsLiteralTok(tok) ==
    tok.kind \in {"String", "Number", "True", "False", "Null", "Identifier"}
LiteralOk(tok) == tok.kind # "Number" \/ ParseNumberValue(tok.text).ok
LiteralNode(tok) ==
    CASE tok.kind \in {"String", "Identifier"} -> NodeString(tok.text, tok.span)
      [] tok.kind = "Number" -> NodeNumber(ParseNumberValue(tok.text).val, tok.span)
      [] tok.kind = "True" -> NodeBool(TRUE, tok.span)
      [] tok.kind = "False" -> NodeBool(FALSE, tok.span)
      [] tok.kind = "Null" -> NodeNull(tok.span)

SpanOfLast(nodes, default) == IF nodes = <<>> THEN default ELSE Last(nodes).span

RECURSIVE InlineLoop(_, _, _, _)
InlineLoop(toks, p, items, delimiter) ==
    LET cur == Current(toks, p)
    IN IF ~IsLiteralTok(cur) THEN Ok(p, items)
       ELSE IF ~LiteralOk(cur)
       THEN Err(p, ParseError("InvalidNumber", cur.span, NoContext))
       ELSE LET p1 == Advance(toks, p)
                items1 == Append(items, LiteralNode(cur))
            IN IF delimiter = "," /\ Current(toks, p1).kind = "Comma"
               THEN InlineLoop(toks, Advance(toks, p1), items1, delimiter)
               ELSE Ok(p1, items1)

ParseInlineArray(toks, p, start_span, expected_count, delimiter) ==
    LET Collected(l) ==
            IF l.ok
            THEN Ok(l.p, NodeArray(l.val, "Inline",
                                   SpanMerge(start_span, SpanOfLast(l.val, start_span))))
            ELSE l
    IN IF Current(toks, p).kind \in {"Newline", "Eof", "Dedent"}
       THEN Ok(p, NodeArray(<<>>, "Inline", start_span))
       ELSE Collected(InlineLoop(toks, p, <<>>, delimiter))

\* the for loop over the field names of parse_tabular_row, from field i
RECURSIVE RowLoop(_, _, _, _, _, _, _)
RowLoop(toks, p, field_names, delimiter, i, entries, start_span) ==
    IF i > Len(field_names) THEN Ok(p, entries)
    ELSE LET cur == Current(toks, p)
         IN IF IsLiteralTok(cur) /\ ~LiteralOk(cur)
            THEN Err(p, ParseError("InvalidNumber", cur.span, NoContext))
            ELSE LET value == IF IsLiteralTok(cur) THEN LiteralNode(cur)
                              ELSE NodeNull(cur.span)
                     p1 == IF IsLiteralTok(cur) THEN Advance(toks, p) ELSE p
                     p2 == IF i < Len(field_names) /\ delimiter = ","
                              /\ Current(toks, p1).kind = "Comma"
                           THEN Advance(toks, p1) ELSE p1
                 IN RowLoop(toks, p2, field_names, delimiter, i + 1,
                            Append(entries, ObjectEntry(field_names[i], start_span, value)),
                            start_span)

ParseTabularRow(toks, p, field_names, delimiter) ==
    LET start_span == Current(toks, p).span
        Collected(l) ==
            LET end_span == IF l.val = <<>> THEN start_span ELSE Last(l.val).value.span
            IN IF l.ok THEN Ok(l.p, NodeObject(l.val, SpanMerge(start_span, end_span)))
               ELSE l
    IN Collected(RowLoop(toks, p, field_names, delimiter, 1, <<>>, start_span))

\* for _ in 0..expected_count, with n rows still allowed
RECURSIVE RowsLoop(_, _, _, _, _, _)
RowsLoop(toks, p, n, field_names, delimiter, items) ==
    LET Row(r) ==
            LET p1 == IF Current(toks, r.p).kind = "Newline" THEN Advance(toks, r.p)
                      ELSE r.p
            IN IF r.ok
               THEN RowsLoop(toks, p1, n - 1, field_names, delimiter, Append(items, r.val))
               ELSE r
    IN IF n = 0 \/ IsAtEnd(toks, p) \/ Current(toks, p).kind = "Dedent"
       THEN Ok(p, items)
       ELSE Row(ParseTabularRow(toks, p, field_names, delimiter))

ParseTabularArray(toks, p, start_span, expected_count, field_names, delimiter) ==
    LET Collected(l) ==
            LET p3 == IF Current(toks, l.p).kind = "Dedent" THEN Advance(toks, l.p)
                      ELSE l.p
            IN IF l.ok
               THEN Ok(p3, NodeArray(l.val, "Tabular",
                                     SpanMerge(start_span, SpanOfLast(l.val, start_span))))
               ELSE l
        Rows(p2) == Collected(RowsLoop(toks, p2, expected_count, field_names, delimiter,
                                       <<>>))
        Indented(p1) == Rows(IF Current(toks, p1).kind = "Indent" THEN Advance(toks, p1)
                             ELSE p1)
    IN Indented(IF Current(toks, p).kind = "Newline" THEN Advance(toks, p) ELSE p)

\* a diverged call: the parser state keeps hang, and the position is put at
\* Eof so that no caller's loop runs on
Diverged(toks, p) ==
    Err([p EXCEPT !.hang = TRUE, !.position = Len(toks) - 1],
        ParseError("Diverged", Current(toks, p).span, NoContext))

ParseArrayWithKey(toks, p0, key, start_span) ==
    LET \* the colon, then the rows or the items
        Body(p5, braces, count, fields, delimiter) ==
            IF Current(toks, p5).kind # "Colon"
            THEN ErrRecorded(p5, "ExpectedColon", Current(toks, p5).span)
            ELSE IF braces
            THEN ParseTabularArray(toks, Advance(toks, p5), start_span, count, fields,
                                   delimiter)
            ELSE ParseInlineArray(toks, Advance(toks, p5), start_span, count, delimiter)
        \* an optional "|" after the header
        Delimiter(p4, braces, count, fields) ==
            LET isPipe == Current(toks, p4).kind = "Identifier"
                              /\ Current(toks, p4).text = <<"|">>
            IN Body(IF isPipe THEN Advance(toks, p4) ELSE p4, braces, count, fields,
                    IF isPipe THEN "|" ELSE ",")
        \* fl is the parser and the field names after the loop over "{...}"
        Fields(fl, closed, braces, count) ==
            IF fl.p.hang THEN Diverged(toks, fl.p)
            ELSE Delimiter(IF braces
                           THEN IF Current(toks, fl.p).kind = "RightBrace"
                                THEN Advance(toks, fl.p) ELSE fl.p
                           ELSE IF closed THEN fl.p
                           ELSE PushError(fl.p, ParseError("UnexpectedToken",
                                                           Current(toks, fl.p).span,
                                                           NoContext)),
                           braces, count, fl.fields)
        \* "]" and an optional "{"
        Bracket(p2, count) ==
            LET closed == Current(toks, p2).kind = "RightBracket"
                p3 == IF closed THEN Advance(toks, p2) ELSE p2
                braces == closed /\ Current(toks, p3).kind = "LeftBrace"
            IN Fields(IF braces THEN FieldsLoop(toks, Advance(toks, p3), <<>>)
                      ELSE [p |-> p3, fields |-> <<>>],
                      closed, braces, count)
        \* an optional count after "["
        Count(p1) ==
            LET hasCount == Current(toks, p1).kind = "Number"
            IN Bracket(IF hasCount THEN Advance(toks, p1) ELSE p1,
                       IF hasCount /\ AllDigits(Current(toks, p1).text)
                       THEN DecimalValue(Current(toks, p1).text) ELSE 0)
    IN Count(Advance(toks, p0))

(***************************************************************************)
(* Values, objects and expanded arrays (mutually recursive)                 *)
(***************************************************************************)
\* Call(f, toks, p, x) is the call f(toks, p) or f(toks, p, x) of one of the
\* functions below from another of them
RECURSIVE Call(_, _, _, _)
RECURSIVE ObjectLoop(_, _, _)
RECURSIVE ExpandedLoop(_, _, _)

ParseValue(toks, p) ==
    LET cur == Current(toks, p)
        pn == Advance(toks, p)
    IN CASE cur.kind = "Error" ->
              LET err == ParseError("UnexpectedToken", cur.span, cur.msg)
              IN Err(Advance(toks, PushError(p, err)), err)
         [] cur.kind = "String" -> ParseString(toks, p)
         [] cur.kind = "Number" -> ParseNumber(toks, p)
         [] cur.kind \in {"True", "False", "Null"} -> ParsePrimitive(toks, p)
         [] cur.kind = "Identifier" ->
              IF HasPeek(toks, p)
              THEN CASE PeekTok(toks, p).kind = "LeftBracket" -> ParseArrayHeader(toks, p)
                     [] PeekTok(toks, p).kind = "Colon" -> ParseNestedValue(toks, p)
                     [] OTHER -> ParseUnquotedString(toks, p)
              ELSE ParseUnquotedString(toks, p)
         [] cur.kind = "Indent" -> Call("parse_nested_object", toks, p, <<>>)
         [] cur.kind = "Dash" -> Call("parse_expanded_array", toks, p, <<>>)
         [] cur.kind = "Newline" ->
              IF Current(toks, pn).kind = "Indent" THEN Call("parse_nested_object", toks, pn, <<>>)
              ELSE IF Current(toks, pn).kind = "Dash" THEN Call("parse_expanded_array", toks, pn, <<>>)
              ELSE Ok(pn, NodeNull(SpanPoint(Current(toks, pn).span.start)))
         [] cur.kind = "Eof" -> Ok(p, NodeNull(SpanPoint(cur.span.start)))
         [] OTHER -> ErrRecorded(p, "ExpectedValue", cur.span)

ParseObjectEntry(toks, p) ==
    LET key_token == Current(toks, p)
        p1 == Advance(toks, p)
        Entry(r) == IF r.ok
                    THEN Ok(r.p, ObjectEntry(key_token.text, key_token.span, r.val))
                    ELSE r
    IN IF key_token.kind \notin {"Identifier", "String"}
       THEN ErrRecorded(p, "ExpectedKey", key_token.span)
       ELSE IF Current(toks, p1).kind = "LeftBracket"
       THEN Entry(ParseArrayWithKey(toks, p1, key_token.text, key_token.span))
       ELSE IF Current(toks, p1).kind # "Colon"
       THEN ErrRecorded(p1, "ExpectedColon", Current(toks, p1).span)
       ELSE Entry(Call("parse_value", toks, Advance(toks, p1), <<>>))

\* Err(e) => { if !self.recovering { self.errors.push(e); } self.synchronize(); }
RecordAndSynchronize(toks, p, e) ==
    Synchronize(toks, IF ~p.recovering THEN PushError(p, e) ELSE p)

\* the while loop of parse_object
ObjectLoop(toks, p0, entries) ==
    LET Entry(r) ==
            IF r.p.hang THEN [p |-> r.p, entries |-> entries]
            ELSE IF r.ok
            THEN ObjectLoop(toks,
                            IF Current(toks, r.p).kind = "Newline"
                            THEN Advance(toks, r.p) ELSE r.p,
                            Append(entries, r.val))
            ELSE ObjectLoop(toks, RecordAndSynchronize(toks, r.p, r.val), entries)
        At(p) ==
            IF Current(toks, p).kind \in {"Dedent", "Eof"}
            THEN [p |-> p, entries |-> entries]
            ELSE IF Current(toks, p).kind \notin {"Identifier", "String"}
            THEN [p |-> p, entries |-> entries]
            ELSE Entry(Call("parse_object_entry", toks, p, <<>>))
    IN IF IsAtEnd(toks, p0) THEN [p |-> p0, entries |-> entries]
       ELSE At(SkipNewlines(toks, p0))

ParseObject(toks, p, start_span) ==
    LET Collected(l) ==
            LET end_span == IF l.entries = <<>> THEN start_span
                            ELSE Last(l.entries).value.span
            IN Ok(l.p, NodeObject(l.entries, SpanMerge(start_span, end_span)))
    IN Collected(ObjectLoop(toks, p, <<>>))

ParseNestedObject(toks, p) ==
    LET start_span == Current(toks, p).span
        p1 == IF Current(toks, p).kind = "Indent" THEN Advance(toks, p) ELSE p
        Dedented(r) == [r EXCEPT !.p = IF Current(toks, r.p).kind = "Dedent"
                                       THEN Advance(toks, r.p) ELSE r.p]
    IN IF Current(toks, p1).kind = "Dash" THEN Call("parse_expanded_array", toks, p1, <<>>)
       ELSE Dedented(Call("parse_object", toks, p1, start_span))

\* the while loop of parse_expanded_array
ExpandedLoop(toks, p, items) ==
    LET p1 == Advance(toks, p)
        k == Current(toks, p1).kind
        pn == Advance(toks, p1)
        Item(r) ==
            LET p2 == IF Current(toks, r.p).kind = "Newline" THEN Advance(toks, r.p)
                      ELSE r.p
            IN IF ~r.ok THEN r
               ELSE IF Current(toks, p2).kind = "Dedent" THEN Ok(p2, Append(items, r.val))
               ELSE ExpandedLoop(toks, p2, Append(items, r.val))
    IN IF Current(toks, p).kind # "Dash" THEN Ok(p, items)
       ELSE Item(IF k = "Newline"
                 THEN IF Current(toks, pn).kind = "Indent"
                      THEN Call("parse_nested_object", toks, pn, <<>>)
                      ELSE Ok(pn, NodeNull(SpanPoint(Current(toks, pn).span.start)))
                 ELSE IF k \in {"Eof", "Dedent"}
                 THEN Ok(p1, NodeNull(SpanPoint(Current(toks, p1).span.start)))
                 ELSE Call("parse_value", toks, p1, <<>>))

ParseExpandedArray(toks, p) ==
    LET start_span == Current(toks, p).span
        Collected(l) ==
            IF l.ok
            THEN Ok(l.p, NodeArray(l.val, "Expanded",
                                   SpanMerge(start_span, SpanOfLast(l.val, start_span))))
            ELSE l
    IN Collected(ExpandedLoop(toks, p, <<>>))

Call(f, toks, p, x) ==
    CASE f = "parse_value" -> ParseValue(toks, p)
      [] f = "parse_object_entry" -> ParseObjectEntry(toks, p)
      [] f = "parse_object" -> ParseObject(toks, p, x)
      [] f = "parse_nested_object" -> ParseNestedObject(toks, p)
      [] f = "parse_expanded_array" -> ParseExpandedArray(toks, p)

ParseDocument(toks, p0) ==
    LET start_span == Current(toks, p0).span
        Root(root) ==
            IF root.ok
            THEN Ok(root.p, NodeDocument(<<root.val>>, SpanMerge(start_span, root.val.span)))
            ELSE root
        At(p) == IF IsAtEnd(toks, p)
                 THEN Ok(p, NodeDocument(<<>>, SpanPoint(start_span.start)))
                 ELSE Root(ParseObject(toks, p, start_span))
    IN At(SkipNewlines(toks, p0))

(***************************************************************************)
(* Public API: parse and parse_with_errors                                  *)
(***************************************************************************)
None == [kind |-> "None"]

\* the parser after parse_document, on the tokens of src
RunParser(src) ==
    LET Tokens(toks) == ParseDocument(toks, ParserNew(toks))
    IN Tokens(ScanAll(src))

\* parse_with_errors: (Option<AstNode>, Vec<ParseError>); hang when it never returns
ParseWithErrors(src) ==
    LET Returned(r) == [hang |-> r.p.hang,
                        ast |-> IF r.ok THEN r.val ELSE None,
                        errors |-> r.p.errors]
    IN Returned(RunParser(src))

\* parse: Result<AstNode, ParseError>, the first recorded error if any
Parse(src) ==
    LET Returned(r) == [hang |-> r.p.hang,
                        ok |-> r.ok /\ r.p.errors = <<>>,
                        val |-> IF r.p.errors # <<>> THEN r.p.errors[1] ELSE r.val]
    IN Returned(RunParser(src))

(***************************************************************************)
(* UTF-16 bridge (lsp/utf16.rs) and diagnostics (lsp/diagnostics.rs).      *)
(* A line is a sequence of characters; byte offsets count Utf8Len.  A      *)
(* result is [panic, val]: slicing a str inside a character panics.        *)
(***************************************************************************)
RECURSIVE ByteLen(_)
ByteLen(text) == IF text = <<>> THEN 0 ELSE Utf8Len(text[1]) + ByteLen(Tail(text))
RECURSIVE Utf16Units(_)
Utf16Units(text) == IF text = <<>> THEN 0 ELSE Utf16Len(text[1]) + Utf16Units(Tail(text))

IsCharBoundary(text, byte) == \E k \in 0..Len(text) : ByteLen(SubSeq(text, 1, k)) = byte
CharsBefore(text, byte) ==
    CHOOSE k \in 0..Len(text) : ByteLen(SubSeq(text, 1, k)) = byte

Utf8ToUtf16Col(line_text, utf8_column) ==
    IF utf8_column >= ByteLen(line_text)
    THEN [panic |-> FALSE, val |-> Utf16Units(line_text)]
    ELSE IF IsCharBoundary(line_text, utf8_column)
    THEN [panic |-> FALSE,
          val |-> Utf16Units(SubSeq(line_text, 1, CharsBefore(line_text, utf8_column)))]
    ELSE [panic |-> TRUE, val |-> 0]

\* the loop of utf16_to_utf8_col from character i on
RECURSIVE Utf16ToUtf8Loop(_, _, _, _, _)
Utf16ToUtf8Loop(line_text, i, utf16_column, utf16_count, utf8_offset) ==
    IF i > Len(line_text) \/ utf16_count >= utf16_column
    THEN utf8_offset
    ELSE Utf16ToUtf8Loop(line_text, i + 1, utf16_column,
                         utf16_count + Utf16Len(line_text[i]),
                         utf8_offset + Utf8Len(line_text[i]))

\* the column taken as a count of bytes, returned as it is
Utf16ToUtf8ColAsBytes(line_text, utf16_column) == utf16_column

Utf16ToUtf8Col(line_text, utf16_column) ==
    Utf16ToUtf8Loop(line_text, 1, utf16_column, 0, 0)

\* str::lines(): split at "\n", a final empty piece dropped, a trailing "\r" cut
RECURSIVE SplitLines(_, _)
SplitLines(text, cur) ==
    IF text = <<>> THEN (IF cur = <<>> THEN <<>> ELSE <<cur>>)
    ELSE IF text[1] = NL
    THEN <<(IF cur # <<>> /\ Last(cur) = CR THEN Front(cur) ELSE cur)>>
             \o SplitLines(Tail(text), <<>>)
    ELSE SplitLines(Tail(text), Append(cur, text[1]))
LinesOf(text) == SplitLines(text, <<>>)

SpanToRange(span, text) ==
    LET lines == LinesOf(text)
        col(pos) == IF pos.line < Len(lines)
                    THEN Utf8ToUtf16Col(lines[pos.line + 1], pos.column)
                    ELSE [panic |-> FALSE, val |-> pos.column]
    IN [panic |-> col(span.start).panic \/ col(span.end).panic,
        val |-> [start |-> [line |-> span.start.line, character |-> col(span.start).val],
                 end |-> [line |-> span.end.line, character |-> col(span.end).val]]]

ErrorToDiagnostic(error, text) ==
    LET r == SpanToRange(error.span, text)
    IN [panic |-> r.panic,
        val |-> [range |-> r.val, severity |-> "ERROR", source |-> "toon-lsp",
                 kind |-> error.kind, context |-> error.context]]

ErrorsToDiagnostics(errors, text) ==
    [panic |-> \E i \in 1..Len(errors) : ErrorToDiagnostic(errors[i], text).panic,
     val |-> [i \in 1..Len(errors) |-> ErrorToDiagnostic(errors[i], text).val]]

(***************************************************************************)
(* Formatter (lsp/formatting.rs)                                           *)
(***************************************************************************)
\* the concatenation of a sequence of texts
RECURSIVE Flatten(_)
Flatten(texts) == IF texts = <<>> THEN <<>> ELSE texts[1] \o Flatten(Tail(texts))

\* FormattingContext::indent at nesting level `level`
Indent(options, level) ==
    IF options.use_tabs
    THEN [i \in 1..level |-> TAB]
    ELSE [i \in 1..(level * options.indent_size) |-> " "]

\* u64::to_string
RECURSIVE DecimalDigits(_)
DecimalDigits(n) ==
    IF n < 10 THEN <<CHOOSE d \in Digits : DigitValue(d) = n>>
    ELSE Append(DecimalDigits(n \div 10), CHOOSE d \in Digits : DigitValue(d) = n % 10)

RECURSIVE StripLeadingZeros(_)
StripLeadingZeros(ds) ==
    IF Len(ds) > 1 /\ ds[1] = "0" THEN StripLeadingZeros(Tail(ds)) ELSE ds
RECURSIVE StripTrailingZeros(_)
StripTrailingZeros(ds) ==
    IF ds # <<>> /\ Last(ds) = "0" THEN StripTrailingZeros(Front(ds)) ELSE ds

\* the shortest decimal text of the f64 written as `raw`; the numerals of the
\* model have a decimal point and no exponent, so the value is exact; a
\* whole value is printed with one fractional digit ("{:.1}")
FormatFloat(raw) ==
    LET Unsigned(neg, text) ==
            LET Split(dot) ==
                    LET Parts(int, frac) ==
                            (IF neg THEN <<"-">> ELSE <<>>)
                            \o (IF int = <<>> THEN <<"0">> ELSE StripLeadingZeros(int))
                            \o <<".">>
                            \o (IF StripTrailingZeros(frac) = <<>> THEN <<"0">>
                                ELSE StripTrailingZeros(frac))
                    IN Parts(SubSeq(text, 1, dot - 1), SubSeq(text, dot + 1, Len(text)))
            IN Split(CHOOSE i \in 1..Len(text) : text[i] = ".")
    IN IF raw[1] = "-" THEN Unsigned(TRUE, Tail(raw)) ELSE Unsigned(FALSE, raw)

\* format_number
FormatNumber(value) ==
    CASE value.tag = "PosInt" -> DecimalDigits(value.int)
      [] value.tag = "NegInt" ->
            IF value.int = 0 THEN <<"0">> ELSE <<"-">> \o DecimalDigits(0 - value.int)
      [] value.tag = "Float" -> FormatFloat(value.raw)

Contains(s, ch) == \E i \in 1..Len(s) : s[i] = ch

ToAsciiLower(ch) ==
    CASE ch = "I" -> "i" [] ch = "N" -> "n" [] ch = "F" -> "f" [] ch = "A" -> "a"
      [] ch = "T" -> "t" [] ch = "Y" -> "y" [] OTHER -> ch

\* str::parse::<f64>().is_ok(): an optional sign, then inf, infinity or nan
\* in any case, or digits with an optional point and an optional exponent
ParsesAsF64(s) ==
    LET Unsigned(t) ==
            LET lower == [i \in 1..Len(t) |-> ToAsciiLower(t[i])]
                Mantissa(m) ==
                    /\ \E i \in 1..Len(m) : m[i] \in Digits
                    /\ \A i \in 1..Len(m) : m[i] \in Digits \cup {"."}
                    /\ Cardinality({i \in 1..Len(m) : m[i] = "."}) <= 1
                Exponent(e) ==
                    IF e # <<>> /\ e[1] \in {"+", "-"} THEN AllDigits(Tail(e))
                    ELSE AllDigits(e)
            IN \/ lower \in {<<"i", "n", "f">>, <<"n", "a", "n">>,
                             <<"i", "n", "f", "i", "n", "i", "t", "y">>}
               \/ Mantissa(t)
               \/ \E k \in 1..Len(t) :
                     /\ t[k] \in {"e", "E"}
                     /\ Mantissa(SubSeq(t, 1, k - 1))
                     /\ Exponent(SubSeq(t, k + 1, Len(t)))
    IN s # <<>> /\ (IF s[1] \in {"+", "-"} THEN Unsigned(Tail(s)) ELSE Unsigned(s))

needs_quotes(s) ==
    \/ s = <<>>
    \/ \E ch \in {":", ",", "[", "]", "{", "}", "|", "-", QUOTE, BACKSLASH} : Contains(s, ch)
    \/ s[1] = " "
    \/ Last(s) = " "
    \/ s \in {<<"t", "r", "u", "e">>, <<"f", "a", "l", "s", "e">>, <<"n", "u", "l", "l">>}
    \/ ParsesAsF64(s)

\* escape_string: every backslash doubled, then every quote escaped
escape_string(s) ==
    Flatten([i \in 1..Len(s) |->
                CASE s[i] = BACKSLASH -> <<BACKSLASH, BACKSLASH>>
                  [] s[i] = QUOTE -> <<BACKSLASH, QUOTE>>
                  [] OTHER -> <<s[i]>>])

\* the text with its items separated by sep
RECURSIVE Join(_, _)
Join(texts, sep) ==
    IF texts = <<>> THEN <<>>
    ELSE IF Len(texts) = 1 THEN texts[1]
    ELSE texts[1] \o sep \o Join(Tail(texts), sep)

RECURSIVE FormatNode(_, _, _)

\* format_object_entry: what it appends to the output at nesting level `level`
FormatObjectEntry(entry, options, level) ==
    Indent(options, level) \o entry.key \o <<":", " ">>
    \o (IF entry.value.kind = "Object"
           \/ (entry.value.kind = "Array" /\ entry.value.form \in {"Expanded", "Tabular"})
        THEN <<NL>> \o FormatNode(entry.value, options, level + 1)
        ELSE FormatNode(entry.value, options, level) \o <<NL>>)

\* format_tabular_row
FormatTabularRow(node, options, level) ==
    IF node.kind = "Object"
    THEN Indent(options, level) \o <<"|", " ">>
         \o Join([i \in 1..Len(node.entries) |->
                      FormatNode(node.entries[i].value, options, level)],
                 <<" ", "|", " ">>)
         \o <<" ", "|", NL>>
    ELSE <<>>

\* format_array
FormatArray(items, form, options, level) ==
    CASE form = "Inline" ->
            <<"[">>
            \o Join([i \in 1..Len(items) |-> FormatNode(items[i], options, level)],
                    <<",", " ">>)
            \o <<"]">>
      [] form = "Expanded" ->
            Flatten([i \in 1..Len(items) |->
                        Indent(options, level) \o <<"-", " ">>
                        \o FormatNode(items[i], options, level) \o <<NL>>])
      [] form = "Tabular" ->
            Flatten([i \in 1..Len(items) |-> FormatTabularRow(items[i], options, level)])

\* format_node: what it appends to the output at nesting level `level`
FormatNode(node, options, level) ==
    CASE node.kind = "Document" ->
            Flatten([i \in 1..Len(node.children) |->
                        FormatNode(node.children[i], options, level)])
      [] node.kind = "Object" ->
            Flatten([i \in 1..Len(node.entries) |->
                        FormatObjectEntry(node.entries[i], options, level)])
      [] node.kind = "Array" -> FormatArray(node.items, node.form, options, level)
      [] node.kind = "String" ->
            IF needs_quotes(node.value)
            THEN <<QUOTE>> \o escape_string(node.value) \o <<QUOTE>>
            ELSE node.value
      [] node.kind = "Number" -> FormatNumber(node.value)
      [] node.kind = "Bool" ->
            IF node.value THEN <<"t", "r", "u", "e">> ELSE <<"f", "a", "l", "s", "e">>
      [] node.kind = "Null" -> <<"n", "u", "l", "l">>

\* format_document: the output of the traversal, closed by a newline
FormatDocument(ast, options) ==
    LET Output(out) == IF out # <<>> /\ Last(out) = NL THEN out ELSE Append(out, NL)
    IN Output(FormatNode(ast, options, 0))

(***************************************************************************)
(* The formatting handler of the language server (lsp/server.rs)           *)
(***************************************************************************)
\* Option<T>
SomeOf(val) == [some |-> TRUE, val |-> val]
NoneOf(val) == [some |-> FALSE, val |-> val]

MaxIndent == 2
IndentSizes == 1..MaxIndent
\* FormattingOptions of a formatting request
LspOptions == [tab_size : 0..MaxIndent, insert_spaces : BOOLEAN]

\* ToonFormattingOptions::from(&FormattingOptions): tab_size clamped to 1..8
OptionsFromLsp(opts) ==
    [indent_size |-> IF opts.tab_size < 1 THEN 1
                     ELSE IF opts.tab_size > 8 THEN 8 ELSE opts.tab_size,
     use_tabs |-> ~opts.insert_spaces]

NoEdit == [end_line |-> 0, end_character |-> 0, new_text |-> <<>>]

\* the single TextEdit of the handler: the whole document, from (0, 0) to
\* the end of its last line, replaced by the formatted text
FormattedEdit(doc, opts) ==
    LET Whole(lines) ==
            [end_line |-> IF lines = <<>> THEN 0 ELSE Len(lines) - 1,
             end_character |-> IF lines = <<>> THEN 0
                               ELSE Utf8ToUtf16Col(Last(lines), ByteLen(Last(lines))).val,
             new_text |-> FormatDocument(doc.ast, OptionsFromLsp(opts))]
    IN Whole(LinesOf(doc.text))

\* the handler without its test of the error list
FormattingResponseIgnoringErrors(doc, opts) ==
    IF doc.ast # None THEN SomeOf(FormattedEdit(doc, opts)) ELSE NoneOf(NoEdit)

\* formatting, under the read guard of the document: Ok(None) when the
\* document has parse errors or no tree, else Ok(Some(vec![edit]))
FormattingResponse(doc, opts) ==
    IF doc.errors # <<>> THEN NoneOf(NoEdit)
    ELSE IF doc.ast # None THEN SomeOf(FormattedEdit(doc, opts))
    ELSE NoneOf(NoEdit)

(***************************************************************************)
(* Inputs: the literal inputs of the specification's scenarios and of the  *)
(* tests, every document of up to MaxLines lines drawn from Lines, and     *)
(* every string of up to MaxLen characters over Alphabet.                  *)
(***************************************************************************)
\* seed scenario 1
SrcNameAlice ==
    <<"n", "a", "m", "e", ":", " ", "A", "l", "i", "c", "e">>
\* seed scenario 2
SrcServer ==
    <<"s", "e", "r", "v", "e", "r", ":", NL, " ", " ", "h", "o", "s", "t",
      ":", " ", "l", "o", "c", "a", "l", "h", "o", "s", "t", NL, " ", " ",
      "p", "o", "r", "t", ":", " ", "8", "0", "8", "0", NL>>
\* seed scenario 3
SrcMissingColon ==
    <<"n", "a", "m", "e", " ", "A", "l", "i", "c", "e">>
\* seed scenario 4
SrcInline ==
    <<"t", "a", "g", "s", "[", "3", "]", ":", " ", "o", "n", "e", ",", "t",
      "w", "o", ",", "t", "h", "r", "e", "e">>
\* seed scenario 5, test_tabular_comma
SrcTabular ==
    <<"u", "s", "e", "r", "s", "[", "2", "]", "{", "i", "d", ",", "n", "a",
      "m", "e", "}", ":", NL, " ", " ", "1", ",", "A", "l", "i", "c", "e",
      NL, " ", " ", "2", ",", "B", "o", "b">>
\* test_error_recovery_missing_colon
SrcMissingColonThenEntry ==
    <<"n", "a", "m", "e", " ", "A", "l", "i", "c", "e", NL, "a", "g", "e",
      ":", " ", "3", "0">>
\* test_error_recovery_resumes
SrcColonInvalid ==
    <<":", " ", "i", "n", "v", "a", "l", "i", "d", NL, "n", "a", "m", "e",
      ":", " ", "A", "l", "i", "c", "e">>
\* test_tab_indentation_error
SrcTabIndent ==
    <<"p", "e", "r", "s", "o", "n", ":", NL, TAB, "n", "a", "m", "e", ":",
      " ", "A", "l", "i", "c", "e">>
\* test_misaligned_dedent_error
SrcMisaligned ==
    <<"o", "u", "t", "e", "r", ":", NL, " ", " ", " ", " ", "i", "n", "n",
      "e", "r", ":", " ", "v", "a", "l", "u", "e", NL, " ", " ", "m", "i",
      "s", "a", "l", "i", "g", "n", "e", "d", ":", " ", "b", "a", "d">>
\* an array header whose field list holds a number
SrcBadFields ==
    <<"a", "[", "1", "]", "{", "1", "}", ":", " ", "x">>
Corpus ==
    {SrcNameAlice,
     SrcServer,
     SrcMissingColon,
     SrcInline,
     SrcTabular,
     SrcMissingColonThenEntry,
     SrcColonInvalid,
     SrcTabIndent,
     SrcMisaligned,
     SrcBadFields}

Lines ==
    {<<"a", ":", " ", "1">>,
     <<"b", ":", " ", "x">>,
     <<"a", " ", "b">>,
     <<":", " ", "x">>,
     <<"a", ":">>,
     <<" ", " ", "c", ":", " ", "2">>,
     <<" ", " ", " ", " ", "d", ":", " ", "3">>,
     <<" ", " ", "-", " ", "1">>,
     <<TAB, "c", ":", " ", "1">>,
     <<"a", "[", "2", "]", ":", " ", "1", ",", "2">>,
     <<"t", "[", "1", "]", "{", "x", "}", ":">>,
     <<>>,
     <<QUOTE, "s">>}

MaxLines == 3
MaxLen == 4
Alphabet == {"a", ":", " ", NL, "-", "1", "[", ",", TAB, QUOTE}

\* the lines joined by newlines
RECURSIVE JoinLines(_)
JoinLines(ls) ==
    IF Len(ls) = 0 THEN <<>>
    ELSE IF Len(ls) = 1 THEN ls[1]
    ELSE ls[1] \o <<NL>> \o JoinLines(Tail(ls))

Documents ==
    {JoinLines(ls) : ls \in UNION {[1..n -> Lines] : n \in 1..MaxLines}}
SmallStrings == UNION {[1..n -> Alphabet] : n \in 0..MaxLen}

\* tabular documents: the header t[n]{x}: or t[n]{x,y}: and r rows of values
MaxRows == 3
FieldNames == <<<<"x">>, <<"y">>>>
RowValues == <<<<"1", "a">>, <<"2", "b">>, <<"3", "c">>>>
DigitChar(n) == CASE n = 0 -> "0" [] n = 1 -> "1" [] n = 2 -> "2" [] n = 3 -> "3"
TabularHeader(n, nf) ==
    <<"t", "[", DigitChar(n), "]", "{", "x">>
        \o (IF nf = 2 THEN <<",", "y">> ELSE <<>>) \o <<"}", ":">>
TabularRow(i, nf) ==
    <<" ", " ", RowValues[i][1]>> \o (IF nf = 2 THEN <<",", RowValues[i][2]>> ELSE <<>>)
TabularDocument(n, nf, r) ==
    JoinLines(<<TabularHeader(n, nf)>> \o [i \in 1..r |-> TabularRow(i, nf)])
TabularDocuments ==
    {TabularDocument(n, nf, r) : n \in 0..MaxRows, nf \in 1..2, r \in 0..MaxRows}

\* number literals as the value of an entry
SrcNegZero == <<"a", ":", " ", "-", "0">>
SrcNegOne == <<"a", ":", " ", "-", "1">>
SrcZero == <<"a", ":", " ", "0">>
SrcNegZeroFloat == <<"a", ":", " ", "-", "0", ".", "0">>
SrcNegZeroItems == <<"a", "[", "2", "]", ":", " ", "-", "0", ",", "-", "2">>
NumberDocuments == {SrcNegZero, SrcNegOne, SrcZero, SrcNegZeroFloat, SrcNegZeroItems}

\* documents that grow in one dimension: nesting depth, items of one array,
\* entries of one object
DepthLimit == 3
ItemsLimit == 3
EntriesLimit == 3
SizeLimit == 16
RECURSIVE Pad(_)
Pad(k) == IF k = 0 THEN <<>> ELSE <<" ", " ">> \o Pad(k - 1)
NestedLine(i, d) == Pad(i - 1) \o <<"a", ":">> \o (IF i = d THEN <<" ", "1">> ELSE <<>>)
NestedDocument(d) == JoinLines([i \in 1..d |-> NestedLine(i, d)])
RECURSIVE ItemList(_)
ItemList(k) == IF k = 1 THEN <<"1">> ELSE <<"1", ",">> \o ItemList(k - 1)
ItemsDocument(k) == <<"a", "[", "1", "]", ":", " ">> \o ItemList(k)
EntriesDocument(k) == JoinLines([i \in 1..k |-> <<"a", ":", " ", "1">>])
GrowingDocuments ==
    {NestedDocument(d) : d \in 1..(DepthLimit + 1)}
        \cup {ItemsDocument(k) : k \in 1..(ItemsLimit + 1)}
        \cup {EntriesDocument(k) : k \in 1..(EntriesLimit + 1)}

\* a nested block with a blank line between its two entries: the line is
\* empty, or holds as many spaces as the block's indent, or fewer, or more
BlankLineDocument(blank) ==
    JoinLines(<<<<"a", ":">>, <<" ", " ", "b", ":", " ", "1">>, blank,
                <<" ", " ", "c", ":", " ", "2">>>>)
BlankLines == {<<>>, <<" ", " ">>, <<" ">>, <<" ", " ", " ">>}
BlankLineDocuments == {BlankLineDocument(blank) : blank \in BlankLines}

Inputs == Corpus \cup Documents \cup SmallStrings \cup TabularDocuments
              \cup NumberDocuments \cup GrowingDocuments \cup BlankLineDocuments

(***************************************************************************)
(* The parser run on one input: Parser::new scans the tokens one by one    *)
(* (scan_all), parse_document runs, and parse / parse_with_errors return.  *)
(* hung is the parser inside a loop that repeats for ever.                 *)
(***************************************************************************)
VARIABLES source, scanner, tokens, phase, result, cli, bridge, feature,
          documents, docs, committed, map_lock, doc_lock, handler,
          published, ops, lastDelivered

pvars == <<source, scanner, tokens, phase, result, cli, bridge, feature>>
svars == <<documents, docs, committed, map_lock, doc_lock, handler,
           published, ops, lastDelivered>>
vars == <<source, scanner, tokens, phase, result, cli, bridge, feature,
          documents, docs, committed, map_lock, doc_lock, handler,
          published, ops, lastDelivered>>

(***************************************************************************)
(* The document store of the language server (lsp/server.rs, lsp/state.rs).*)
(* documents maps a URI to the identity of its Arc<RwLock<DocumentState>>  *)
(* (0: no entry); docs holds the DocumentState behind each Arc.  A handler *)
(* is an async fn in progress; pc is the await it is suspended at.         *)
(***************************************************************************)
NumHandlers == 3
NumUris == 2
MaxOps == 3

Handlers == 1..NumHandlers
URIs == 1..NumUris
DocIds == 1..MaxOps

TxtValid == <<"a", ":", "1">>
TxtError == <<"a", " ", "b">>
TxtHang == <<"a", "[", "]", "{", ":">>
TxtNonAscii == <<"a", " ", "U+00E9">>
DocTexts == {TxtValid, TxtError, TxtHang, TxtNonAscii}

NoDoc == [text |-> <<>>, version |-> 0, ast |-> None, errors |-> <<>>]
NotSent == [some |-> FALSE, diags |-> <<>>]
Unlocked == [writer |-> 0, readers |-> {}]
\* what a request returned: Ok(Some(..)), Ok(None) or Err(..)
NoResponse == [returned |-> FALSE, ok |-> FALSE, some |-> FALSE]
OkResponse(some) == [returned |-> TRUE, ok |-> TRUE, some |-> some]
ErrResponse == [returned |-> TRUE, ok |-> FALSE, some |-> FALSE]
Idle == [kind |-> "idle", pc |-> "idle", uri |-> 0, text |-> <<>>, version |-> 0,
         arc |-> 0, snap |-> NoDoc, sent |-> NotSent, response |-> NoResponse]

\* tokio::sync::RwLock: any number of readers, or one writer
CanReadIgnoringWriter(l) == TRUE
CanReadExclusive(l) == l.writer = 0 /\ l.readers = {}
CanRead(l) == l.writer = 0
CanWrite(l) == l.writer = 0 /\ l.readers = {}
ReadLock(l, h) == [l EXCEPT !.readers = @ \cup {h}]
WriteLock(l, h) == [l EXCEPT !.writer = h]
ReadUnlock(l, h) == [l EXCEPT !.readers = @ \ {h}]
WriteGuardKept(l, h) == l
WriteUnlock(l, h) == [l EXCEPT !.writer = 0]

\* parse_with_errors on each text the editor sends
ParsedTexts == [t \in DocTexts |-> ParseWithErrors(t)]

DocumentStateNew(text, version) ==
    LET Parsed(r) ==
            [hang |-> r.hang,
             state |-> [text |-> text, version |-> version, ast |-> r.ast,
                        errors |-> r.errors]]
    IN Parsed(ParsedTexts[text])

NoResult == [ok |-> FALSE, val |-> None, errors |-> <<>>, position |-> 0]

\* the format command before it runs: its arguments not yet read, no file
\* on disk, nothing on standard output, not exited (cli/format.rs)
Paths == {"in", "out"}
NoPath == "none"
NoFile == [exists |-> FALSE, content |-> <<>>]
NoArgs == [check |-> FALSE, indent |-> 0, tabs |-> FALSE, output |-> NoPath]
\* the UTF-16 bridge before a conversion: the line, the column given, the
\* column returned, and for a round trip the column converted back
NoBridge == [line |-> <<>>, pc |-> "idle", column |-> 0, panic |-> FALSE,
             val |-> 0, back |-> 0]
\* no feature service called yet: the cursor, the flag or new name given,
\* and the spans (with the texts of the edits) returned
NoFeature == [kind |-> "none", line |-> 0, col |-> 0, include_declaration |-> FALSE,
              new_name |-> <<>>, spans |-> <<>>, new_texts |-> <<>>,
              tokens |-> <<>>, encoded |-> <<>>, panic |-> FALSE]
CliNew == [args |-> NoArgs,
           files |-> [f \in Paths |-> NoFile],
           stdout |-> <<>>,
           has_formatted |-> FALSE,
           formatted |-> <<>>,
           exited |-> FALSE,
           code |-> 0]

\* TOONLanguageServer::new: an empty map, nothing in progress
StoreNew ==
    /\ documents = [u \in URIs |-> 0]
    /\ docs = [d \in DocIds |-> NoDoc]
    /\ committed = [d \in DocIds |-> NoDoc]
    /\ map_lock = Unlocked
    /\ doc_lock = [d \in DocIds |-> Unlocked]
    /\ handler = [h \in Handlers |-> Idle]
    /\ published = [u \in URIs |-> NotSent]
    /\ ops = 0
    /\ lastDelivered = [u \in URIs |-> [version |-> 0, text |-> <<>>]]

ParseInit ==
    /\ source \in Inputs
    /\ scanner = ScannerNew
    /\ tokens = <<>>
    /\ phase = "scan"
    /\ result = NoResult
    /\ cli = CliNew
    /\ bridge = NoBridge
    /\ feature = NoFeature
    /\ StoreNew

\* one iteration of the loop of scan_all
ScanStep ==
    /\ phase = "scan"
    /\ LET Emit(n) == /\ scanner' = [n.s EXCEPT !.done = (n.tok.kind = "Eof")]
                       /\ tokens' = Append(tokens, n.tok)
                       /\ phase' = IF n.tok.kind = "Eof" THEN "parse" ELSE "scan"
       IN Emit(NextToken(source, scanner))
    /\ UNCHANGED <<source, result, cli, bridge, feature>>
    /\ UNCHANGED svars

\* parse_document on the scanned tokens, and the return of the entry point
ParseStep ==
    /\ phase = "parse"
    /\ LET Returned(r) ==
               IF r.p.hang
               THEN phase' = "hung" /\ UNCHANGED result
               ELSE /\ phase' = "done"
                    /\ result' = [ok |-> r.ok, val |-> r.val, errors |-> r.p.errors,
                                   position |-> r.p.position]
       IN Returned(ParseDocument(tokens, ParserNew(tokens)))
    /\ UNCHANGED <<source, scanner, tokens, cli, bridge, feature>>
    /\ UNCHANGED svars

ParseNext == ScanStep \/ ParseStep

ParseSpec == ParseInit /\ [][ParseNext]_vars

(***************************************************************************)
(* Views of the finished run                                               *)
(***************************************************************************)
HasErrorToken == \E i \in 1..Len(tokens) : tokens[i].kind = "Error"

\* the entries of the root object of the returned document
RootEntries ==
    IF result.ok /\ result.val.kind = "Document" /\ result.val.children # <<>>
       /\ result.val.children[1].kind = "Object"
    THEN result.val.children[1].entries
    ELSE <<>>
HasRootKey(key) == \E i \in 1..Len(RootEntries) : RootEntries[i].key = key

ErrorsStartingOnLine(l) ==
    {i \in 1..Len(result.errors) : result.errors[i].span.start.line = l}

(***************************************************************************)
(* Claims about the parser                                                  *)
(***************************************************************************)
\* C1: for every input, parse and parse_with_errors terminate: the parser is
\* never inside a loop that repeats for ever.
C1_ParserTerminates == phase # "hung"

\* C7: whenever the token stream holds an Error token, the error list that
\* parse_with_errors returns is not empty.
C7_LexerErrorsReported ==
    (phase = "done" /\ HasErrorToken) => result.errors # <<>>

\* C8: every statement (logical line) contributes at most one entry to the
\* error list: no two errors start on the same line.
C8_OneErrorPerStatement ==
    phase = "done" =>
        \A i \in 1..Len(result.errors) :
            Cardinality(ErrorsStartingOnLine(result.errors[i].span.start.line)) <= 1

\* C9: a valid entry on the line after an erroneous line is parsed and is in
\* the returned AST: `name: Alice` after `: invalid`, and `a: 1` after a
\* line that starts with a colon, a tab or an unterminated string.
ErroneousFirstLines == {<<":", " ", "x">>, <<TAB, "c", ":", " ", "1">>, <<QUOTE, "s">>}
C9_ResumesAtNextLine ==
    /\ (phase = "done" /\ source = SrcColonInvalid) => HasRootKey(<<"n", "a", "m", "e">>)
    /\ \A l \in ErroneousFirstLines :
           (phase = "done" /\ source = l \o <<NL>> \o <<"a", ":", " ", "1">>)
               => HasRootKey(<<"a">>)

\* C10: for `name Alice`, parse_with_errors returns Some Document with no
\* children and exactly one error, ExpectedColon at bytes 4..5.
C10_MissingColonScenario ==
    (phase = "done" /\ source = SrcMissingColon) =>
        /\ result.ok
        /\ result.val.kind = "Document"
        /\ result.val.children = <<>>
        /\ Len(result.errors) = 1
        /\ result.errors[1].kind = "ExpectedColon"
        /\ result.errors[1].span.start.offset = 4
        /\ result.errors[1].span.end.offset = 5

(***************************************************************************)
(* Handlers of the language server.  Delivery of a message runs the        *)
(* handler up to its first await; each later action is the stretch from    *)
(* one await to the next.  The editor opens a URI before changing or       *)
(* closing it and numbers its messages in delivery order.                  *)
(***************************************************************************)
NoChange == [version |-> 0, text |-> <<>>]

FreeSlot(h) ==
    /\ handler[h].kind = "idle"
    /\ \A g \in 1..(h - 1) : handler[g].kind # "idle"

Begin(kind, pc, uri, text, version) ==
    [Idle EXCEPT !.kind = kind, !.pc = pc, !.uri = uri, !.text = text, !.version = version]

\* did_open up to documents.write().await: DocumentState::new parses the text
DidOpen(h, uri, text) ==
    /\ FreeSlot(h) /\ ops < MaxOps
    /\ lastDelivered[uri] = NoChange
    /\ LET Built(n) ==
               handler' = [handler EXCEPT ![h] =
                   IF n.hang THEN Begin("did_open", "hung", uri, text, ops + 1)
                   ELSE [Begin("did_open", "map_write", uri, text, ops + 1)
                           EXCEPT !.snap = n.state]]
       IN Built(DocumentStateNew(text, ops + 1))
    /\ ops' = ops + 1
    /\ lastDelivered' = [lastDelivered EXCEPT ![uri] = [version |-> ops + 1, text |-> text]]
    /\ UNCHANGED <<documents, docs, committed, map_lock, doc_lock, published>>
    /\ UNCHANGED pvars

\* did_change up to get_document: returns at once without a content change
DidChange(h, uri, text, empty) ==
    /\ FreeSlot(h) /\ ops < MaxOps
    /\ lastDelivered[uri] # NoChange
    /\ handler' = [handler EXCEPT ![h] =
           IF empty THEN Begin("did_change", "done", uri, <<>>, ops + 1)
           ELSE Begin("did_change", "get_document", uri, text, ops + 1)]
    /\ ops' = ops + 1
    /\ lastDelivered' = IF empty THEN lastDelivered
                        ELSE [lastDelivered EXCEPT ![uri] = [version |-> ops + 1, text |-> text]]
    /\ UNCHANGED <<documents, docs, committed, map_lock, doc_lock, published>>
    /\ UNCHANGED pvars

\* did_close up to documents.write().await
DidClose(h, uri) ==
    /\ FreeSlot(h) /\ ops < MaxOps
    /\ lastDelivered[uri] # NoChange
    /\ handler' = [handler EXCEPT ![h] = Begin("did_close", "map_write", uri, <<>>, ops + 1)]
    /\ ops' = ops + 1
    /\ lastDelivered' = [lastDelivered EXCEPT ![uri] = NoChange]
    /\ UNCHANGED <<documents, docs, committed, map_lock, doc_lock, published>>
    /\ UNCHANGED pvars

\* hover, completion, document_symbol, ...: a request up to get_document
Request(h, uri) ==
    /\ FreeSlot(h) /\ ops < MaxOps
    /\ handler' = [handler EXCEPT ![h] = Begin("request", "get_document", uri, <<>>, 0)]
    /\ ops' = ops + 1
    /\ UNCHANGED <<documents, docs, committed, map_lock, doc_lock, published, lastDelivered>>
    /\ UNCHANGED pvars

\* documents.write().await completes
MapWrite(h) ==
    /\ handler[h].pc = "map_write"
    /\ CanWrite(map_lock)
    /\ map_lock' = WriteLock(map_lock, h)
    /\ handler' = [handler EXCEPT ![h].pc =
           IF handler[h].kind = "did_open" THEN "insert" ELSE "remove"]
    /\ UNCHANGED <<documents, docs, committed, doc_lock, published, ops, lastDelivered>>
    /\ UNCHANGED pvars

\* docs.insert(uri, Arc::new(RwLock::new(doc_state))) and the end of the block
Insert(h) ==
    /\ handler[h].pc = "insert"
    /\ LET id == handler[h].version
       IN /\ documents' = [documents EXCEPT ![handler[h].uri] = id]
          /\ docs' = [docs EXCEPT ![id] = handler[h].snap]
          /\ committed' = [committed EXCEPT ![id] = handler[h].snap]
    /\ map_lock' = WriteUnlock(map_lock, h)
    /\ handler' = [handler EXCEPT ![h].pc = "get_document", ![h].snap = NoDoc]
    /\ UNCHANGED <<doc_lock, published, ops, lastDelivered>>
    /\ UNCHANGED pvars

\* docs.remove(&uri) and the end of the block
Remove(h) ==
    /\ handler[h].pc = "remove"
    /\ documents' = [documents EXCEPT ![handler[h].uri] = 0]
    /\ map_lock' = WriteUnlock(map_lock, h)
    /\ handler' = [handler EXCEPT ![h].pc = "publish_clear"]
    /\ UNCHANGED <<docs, committed, doc_lock, published, ops, lastDelivered>>
    /\ UNCHANGED pvars

\* client.publish_diagnostics(uri, vec![], None).await completes
PublishClear(h) ==
    /\ handler[h].pc = "publish_clear"
    /\ published' = [published EXCEPT ![handler[h].uri] = [some |-> TRUE, diags |-> <<>>]]
    /\ handler' = [handler EXCEPT ![h].pc = "done",
                                  ![h].sent = [some |-> TRUE, diags |-> <<>>]]
    /\ UNCHANGED <<documents, docs, committed, map_lock, doc_lock, ops, lastDelivered>>
    /\ UNCHANGED pvars

\* get_document: self.documents.read().await completes
MapRead(h) ==
    /\ handler[h].pc = "get_document"
    /\ CanRead(map_lock)
    /\ map_lock' = ReadLock(map_lock, h)
    /\ handler' = [handler EXCEPT ![h].pc = "lookup"]
    /\ UNCHANGED <<documents, docs, committed, doc_lock, published, ops, lastDelivered>>
    /\ UNCHANGED pvars

\* get_document: docs.get(uri).cloned(), the guard dropped; None ends a
\* did_change and leaves a request to return (absent)
Lookup(h) ==
    /\ handler[h].pc = "lookup"
    /\ map_lock' = ReadUnlock(map_lock, h)
    /\ LET arc == documents[handler[h].uri]
       IN handler' = [handler EXCEPT
              ![h].arc = arc,
              ![h].pc = IF arc = 0
                        THEN (IF handler[h].kind = "request" THEN "absent" ELSE "done")
                        ELSE IF handler[h].kind = "did_change" THEN "doc_write"
                        ELSE "doc_read"]
    /\ UNCHANGED <<documents, docs, committed, doc_lock, published, ops, lastDelivered>>
    /\ UNCHANGED pvars

\* doc_arc.write().await completes; DocumentState::update parses, then
\* assigns text and version
UpdateTextVersion(h) ==
    /\ handler[h].pc = "doc_write"
    /\ LET arc == handler[h].arc
           Parsed(n) ==
               IF n.hang
               THEN /\ handler' = [handler EXCEPT ![h].pc = "hung"]
                    /\ UNCHANGED docs
               ELSE /\ handler' = [handler EXCEPT ![h].pc = "update", ![h].snap = n.state]
                    /\ docs' = [docs EXCEPT ![arc].text = n.state.text,
                                            ![arc].version = n.state.version]
       IN /\ CanWrite(doc_lock[arc])
          /\ doc_lock' = [doc_lock EXCEPT ![arc] = WriteLock(@, h)]
          /\ Parsed(DocumentStateNew(handler[h].text, handler[h].version))
    /\ UNCHANGED <<documents, committed, map_lock, published, ops, lastDelivered>>
    /\ UNCHANGED pvars

\* DocumentState::update assigns ast and errors; the write guard is dropped
UpdateAstErrors(h) ==
    /\ handler[h].pc = "update"
    /\ LET arc == handler[h].arc
       IN /\ docs' = [docs EXCEPT ![arc].ast = handler[h].snap.ast,
                                  ![arc].errors = handler[h].snap.errors]
          /\ committed' = [committed EXCEPT ![arc] = handler[h].snap]
          /\ doc_lock' = [doc_lock EXCEPT ![arc] = WriteUnlock(@, h)]
    /\ handler' = [handler EXCEPT ![h].pc = "doc_read", ![h].snap = NoDoc]
    /\ UNCHANGED <<documents, map_lock, published, ops, lastDelivered>>
    /\ UNCHANGED pvars

\* in a request: doc_arc.read().await completes and the handler reads the state
RequestRead(h) ==
    /\ handler[h].pc = "doc_read" /\ handler[h].kind = "request"
    /\ LET arc == handler[h].arc
       IN /\ CanRead(doc_lock[arc])
          /\ doc_lock' = [doc_lock EXCEPT ![arc] = ReadLock(@, h)]
          /\ handler' = [handler EXCEPT ![h].pc = "respond", ![h].snap = docs[arc]]
    /\ UNCHANGED <<documents, docs, committed, map_lock, published, ops, lastDelivered>>
    /\ UNCHANGED pvars

\* the requests served by the handlers of the server
Services ==
    {"document_symbol", "hover", "completion", "goto_definition", "references",
     "prepare_rename", "rename", "semantic_tokens_full", "semantic_tokens_range",
     "formatting"}

\* what the handler of the service returns for a document it found; hit
\* tells whether the feature service has something to return at the cursor
ServiceResult(doc, service, hit) ==
    CASE service = "formatting" -> OkResponse(doc.errors = <<>> /\ doc.ast # None)
      [] service \in {"document_symbol", "semantic_tokens_full", "semantic_tokens_range"} ->
            OkResponse(doc.ast # None)
      [] OTHER -> OkResponse(doc.ast # None /\ hit)

\* a handler that reports a request on an unknown document as an error
RequestResultErrOnMissing(found, doc, service, hit) ==
    IF found THEN ServiceResult(doc, service, hit) ELSE ErrResponse

\* the value a request handler returns: Ok(None) unless get_document found
\* the document
RequestResult(found, doc, service, hit) ==
    IF found THEN ServiceResult(doc, service, hit) ELSE OkResponse(FALSE)

\* the request returns its response; the read guard, if one was taken, is
\* dropped.  Which service was requested only matters here
Respond(h, service, hit) ==
    /\ handler[h].pc \in {"respond", "absent"}
    /\ doc_lock' = IF handler[h].arc = 0 THEN doc_lock
                   ELSE [doc_lock EXCEPT ![handler[h].arc] = ReadUnlock(@, h)]
    /\ handler' = [handler EXCEPT
           ![h].pc = "done",
           ![h].response = RequestResult(handler[h].arc # 0, handler[h].snap,
                                         service, hit)]
    /\ UNCHANGED <<documents, docs, committed, map_lock, published, ops, lastDelivered>>
    /\ UNCHANGED pvars

\* in did_open and did_change: doc_arc.read().await completes, and
\* publish_diagnostics runs up to client.publish_diagnostics(..).await;
\* a panic in errors_to_diagnostics unwinds and drops the guard
PublishRead(h) ==
    /\ handler[h].pc = "doc_read" /\ handler[h].kind \in {"did_open", "did_change"}
    /\ LET arc == handler[h].arc
           Translated(d) ==
               IF d.panic
               THEN /\ handler' = [handler EXCEPT ![h].pc = "panicked"]
                    /\ UNCHANGED doc_lock
               ELSE /\ doc_lock' = [doc_lock EXCEPT ![arc] = ReadLock(@, h)]
                    /\ handler' = [handler EXCEPT ![h].pc = "publish",
                                       ![h].snap = docs[arc],
                                       ![h].sent = [some |-> FALSE, diags |-> d.val]]
       IN /\ CanRead(doc_lock[arc])
          /\ Translated(ErrorsToDiagnostics(docs[arc].errors, docs[arc].text))
    /\ UNCHANGED <<documents, docs, committed, map_lock, published, ops, lastDelivered>>
    /\ UNCHANGED pvars

\* client.publish_diagnostics(uri, diagnostics, None).await completes, the
\* handler returns and the read guard is dropped
Publish(h) ==
    /\ handler[h].pc = "publish"
    /\ published' = [published EXCEPT ![handler[h].uri] =
                         [some |-> TRUE, diags |-> handler[h].sent.diags]]
    /\ doc_lock' = [doc_lock EXCEPT ![handler[h].arc] = ReadUnlock(@, h)]
    /\ handler' = [handler EXCEPT ![h].pc = "done", ![h].sent.some = TRUE]
    /\ UNCHANGED <<documents, docs, committed, map_lock, ops, lastDelivered>>
    /\ UNCHANGED pvars

\* the handler's future is dropped
Retire(h) ==
    /\ handler[h].pc = "done"
    /\ handler' = [handler EXCEPT ![h] = Idle]
    /\ UNCHANGED <<documents, docs, committed, map_lock, doc_lock, published, ops,
                   lastDelivered>>
    /\ UNCHANGED pvars

Init ==
    /\ source = <<>>
    /\ scanner = ScannerNew
    /\ tokens = <<>>
    /\ phase = "idle"
    /\ result = NoResult
    /\ cli = CliNew
    /\ bridge = NoBridge
    /\ feature = NoFeature
    /\ StoreNew

Next ==
    \E h \in Handlers :
        \/ \E uri \in URIs, text \in DocTexts : DidOpen(h, uri, text)
        \/ \E uri \in URIs, text \in DocTexts, empty \in BOOLEAN : DidChange(h, uri, text, empty)
        \/ \E uri \in URIs : DidClose(h, uri)
        \/ \E uri \in URIs : Request(h, uri)
        \/ MapWrite(h)
        \/ Insert(h)
        \/ Remove(h)
        \/ PublishClear(h)
        \/ MapRead(h)
        \/ Lookup(h)
        \/ UpdateTextVersion(h)
        \/ UpdateAstErrors(h)
        \/ RequestRead(h)
        \/ \E service \in Services, hit \in BOOLEAN : Respond(h, service, hit)
        \/ PublishRead(h)
        \/ Publish(h)
        \/ Retire(h)

Spec == Init /\ [][Next]_vars

(***************************************************************************)
(* Properties of the document store.                                       *)
(***************************************************************************)
HoldsWriteLock(h) == map_lock.writer = h \/ \E d \in DocIds : doc_lock[d].writer = h
HoldsReadLock(h) == h \in map_lock.readers \/ \E d \in DocIds : h \in doc_lock[d].readers
AwaitsTransport(h) == handler[h].pc \in {"publish", "publish_clear"}
AllHandled == \A h \in Handlers : handler[h].pc \in {"idle", "done"}

\* C2: whatever a handler has read of a document while it holds the
\* document's read lock is one whole state, the one before or the one after a
\* did_change's write: text, version, AST and errors all come from the same
\* completed write, and the AST and errors are the parse of that text.
C2_ReadersSeeWholeState ==
    \A h \in Handlers :
        handler[h].pc \in {"respond", "publish"} =>
            /\ handler[h].snap = committed[handler[h].arc]
            /\ handler[h].snap =
                   DocumentStateNew(handler[h].snap.text, handler[h].snap.version).state

\* a request has read the state a did_change wrote, the did_change still in progress
C2_Witness ==
    \E h, w \in Handlers :
        /\ handler[h].kind = "request" /\ handler[h].pc = "respond"
        /\ handler[w].kind = "did_change" /\ handler[w].pc \in {"doc_read", "publish"}
        /\ handler[w].arc = handler[h].arc
        /\ handler[h].snap.version = handler[w].version

\* C3: a handler that awaits transport I/O (the publishDiagnostics it sends)
\* holds no lock of the store, neither the map's nor a document's, neither
\* for reading nor for writing.
C3_NoLockAcrossTransport ==
    \A h \in Handlers : AwaitsTransport(h) => ~HoldsWriteLock(h) /\ ~HoldsReadLock(h)

\* C4: a notification handler that has come to dispatching diagnostics
\* (it waits for the read lock it publishes under, or awaits the transport)
\* holds no write lock, neither the map's nor a document's.
C4_WriteLocksReleasedBeforeDiagnostics ==
    \A h \in Handlers :
        (handler[h].kind \in {"did_open", "did_change", "did_close"}
            /\ (AwaitsTransport(h) \/ handler[h].pc = "doc_read")) => ~HoldsWriteLock(h)

\* a did_change awaits the transport after its write reached the document
C4_Witness ==
    \E h \in Handlers :
        /\ handler[h].kind = "did_change" /\ handler[h].pc = "publish"
        /\ committed[handler[h].arc].version = handler[h].version

\* C5: once every delivered notification has been handled, the store holds for
\* each open URI the text and version of the change delivered last for it.
C5_LastDeliveredChangeStored ==
    \A u \in URIs :
        (AllHandled /\ lastDelivered[u] # NoChange /\ documents[u] # 0) =>
            /\ docs[documents[u]].version = lastDelivered[u].version
            /\ docs[documents[u]].text = lastDelivered[u].text

\* C6: no did_open or did_change ends without a publishDiagnostics for its URI:
\* its handler neither stops in the parse or in the translation of the errors,
\* nor returns without having sent the translation of every error of the state.
C6_DiagnosticsAfterOpenAndChange ==
    \A h \in Handlers :
        handler[h].kind \in {"did_open", "did_change"} =>
            /\ handler[h].pc \notin {"hung", "panicked"}
            /\ handler[h].pc = "done" =>
                   /\ handler[h].sent.some
                   /\ published[handler[h].uri].some
                   /\ handler[h].sent.diags =
                          ErrorsToDiagnostics(handler[h].snap.errors, handler[h].snap.text).val
                   /\ Len(handler[h].sent.diags) = Len(handler[h].snap.errors)

(***************************************************************************)
(* Spans and keys of a returned AST                                        *)
(***************************************************************************)
\* the children of a node (AstNode::Document, Object, Array)
Children(n) ==
    CASE n.kind = "Document" -> n.children
      [] n.kind = "Object" -> [i \in 1..Len(n.entries) |-> n.entries[i].value]
      [] n.kind = "Array" -> n.items
      [] OTHER -> <<>>

\* every node of the tree under n, n included
RECURSIVE Nodes(_)
Nodes(n) == {n} \cup UNION {Nodes(Children(n)[i]) : i \in 1..Len(Children(n))}

\* every ObjectEntry of the tree under n
Entries(n) ==
    UNION {{m.entries[i] : i \in 1..Len(m.entries)} : m \in {x \in Nodes(n) : x.kind = "Object"}}

ResultNodes == IF phase = "done" /\ result.ok THEN Nodes(result.val) ELSE {}
ResultErrors == IF phase = "done" THEN {result.errors[i] : i \in 1..Len(result.errors)} ELSE {}

ValidSpan(sp, src) ==
    /\ sp.start.offset <= sp.end.offset
    /\ sp.start.line <= sp.end.line
    /\ sp.end.offset <= ByteLen(src)

\* C11: every node of the returned AST and every returned error has a span with
\* start <= end by offset, start.line <= end.line, and its offsets inside the
\* source text.
C11_SpansValid ==
    /\ \A n \in ResultNodes : ValidSpan(n.span, source)
    /\ \A e \in ResultErrors : ValidSpan(e.span, source)

\* a returned AST with an object that has entries, next to a recorded error
C11_Witness ==
    /\ \E n \in ResultNodes :
           n.kind = "Object" /\ n.entries # <<>> /\ n.span.start.offset < n.span.end.offset
    /\ ResultErrors # {}

\* the source text between two byte offsets on character boundaries
SourceText(src, sp) ==
    SubSeq(src, CharsBefore(src, sp.start.offset) + 1, CharsBefore(src, sp.end.offset))

\* text is the key as the source writes it: bare, or as one quoted string
IsKeyText(text, key) ==
    \/ text = key
    \/ /\ text # <<>> /\ text[1] = QUOTE
       /\ ScanToken(text, ScannerNew).tok.kind = "String"
       /\ ScanToken(text, ScannerNew).tok.text = key
       /\ ScanToken(text, ScannerNew).s.pos = Len(text)

ResultEntries == IF phase = "done" /\ result.ok THEN Entries(result.val) ELSE {}

\* C12: the key_span of every ObjectEntry of a returned AST, the entries of
\* tabular rows included, covers exactly the text of the key in the source.
C12_KeySpanIsKeyText ==
    \A e \in ResultEntries :
        /\ ValidSpan(e.key_span, source)
        /\ IsKeyText(SourceText(source, e.key_span), e.key)

(***************************************************************************)
(* The format command (cli/format.rs, main.rs)                             *)
(***************************************************************************)
ExitSuccess == 0
ExitError == 1
ExitValidationFailed == 2

\* --check, --indent, --tabs and --output of FormatArgs
FormatArgs ==
    [check : BOOLEAN, indent : IndentSizes, tabs : BOOLEAN, output : Paths \cup {NoPath}]

\* ToonFormattingOptions built from the arguments
ToonFormattingOptions(args) == [indent_size |-> args.indent, use_tabs |-> args.tabs]

\* documents that exercise nesting, quoting, floats and the array forms
SrcNested ==
    <<"a", ":", NL, " ", " ", " ", " ", "b", ":", NL,
      " ", " ", " ", " ", " ", " ", " ", " ", "c", ":", " ", "0", "7">>
SrcFloat == <<"p", ":", " ", "0", "3", ".", "5", "0">>
SrcQuoted == <<"s", ":", " ", QUOTE, "x", ":", BACKSLASH, QUOTE, "y", QUOTE>>
SrcQuotedKey == <<QUOTE, "a", " ", "b", QUOTE, ":", " ", "1">>
SrcExpanded ==
    <<"l", ":", NL, " ", " ", "-", " ", "1", NL, " ", " ", "-", " ", "x">>
SrcFormatted == <<"a", ":", " ", "1", NL, "b", ":", NL, " ", " ", "c", ":", " ", "x", NL>>
FormatInputs ==
    Corpus \cup Documents \cup {SrcNested, SrcFloat, SrcQuoted, SrcQuotedKey, SrcExpanded, SrcFormatted}

\* main before format::execute: the input file holds the content
FormatInit ==
    /\ source \in FormatInputs
    /\ scanner = ScannerNew
    /\ tokens = <<>>
    /\ phase = "scan"
    /\ result = NoResult
    /\ cli = [CliNew EXCEPT !.files["in"] = [exists |-> TRUE, content |-> source]]
    /\ bridge = NoBridge
    /\ feature = NoFeature
    /\ StoreNew

Exit(c, code) == [c EXCEPT !.exited = TRUE, !.code = code]

\* execute after parse_with_errors returned errors or no tree:
\* Err(CliError::Validation), which main turns into exit code 2
FormatReject(args) ==
    /\ phase = "done"
    /\ ~cli.exited
    /\ result.errors # <<>> \/ ~result.ok
    /\ cli' = Exit([cli EXCEPT !.args = args], ExitValidationFailed)
    /\ UNCHANGED <<source, scanner, tokens, phase, result, bridge, feature>>
    /\ UNCHANGED svars

\* io_utils::write_output: File::create and write_all, or standard output
WriteOutput(c, output, content, creatable) ==
    IF output = NoPath
    THEN Exit([c EXCEPT !.stdout = content], ExitSuccess)
    ELSE IF creatable
    THEN Exit([c EXCEPT !.files[output] = [exists |-> TRUE, content |-> content]],
              ExitSuccess)
    ELSE Exit(c, ExitError)

\* a check mode that goes on to write the formatted text
FormatCheckThenWrite(args) ==
    /\ phase = "done"
    /\ ~cli.exited
    /\ result.errors = <<>> /\ result.ok
    /\ args.check
    /\ LET Write(formatted) ==
               cli' = WriteOutput([cli EXCEPT !.args = args,
                                              !.has_formatted = TRUE,
                                              !.formatted = formatted],
                                  args.output, formatted, TRUE)
       IN Write(FormatDocument(result.val, ToonFormattingOptions(args)))
    /\ UNCHANGED <<source, scanner, tokens, phase, result, bridge, feature>>
    /\ UNCHANGED svars

\* execute in check mode after a parse without errors: the formatted text is
\* compared with the content, Err(CliError::FormatMismatch) is exit code 1
FormatCheck(args) ==
    /\ phase = "done"
    /\ ~cli.exited
    /\ result.errors = <<>> /\ result.ok
    /\ args.check
    /\ LET Compare(formatted) ==
               cli' = Exit([cli EXCEPT !.args = args,
                                       !.has_formatted = TRUE,
                                       !.formatted = formatted],
                           IF formatted # source THEN ExitError ELSE ExitSuccess)
       IN Compare(FormatDocument(result.val, ToonFormattingOptions(args)))
    /\ UNCHANGED <<source, scanner, tokens, phase, result, bridge, feature>>
    /\ UNCHANGED svars

\* execute without --check after a parse without errors: the formatted text
\* is written to the output; creatable tells whether File::create succeeds
FormatWrite(args, creatable) ==
    /\ phase = "done"
    /\ ~cli.exited
    /\ result.errors = <<>> /\ result.ok
    /\ ~args.check
    /\ LET Write(formatted) ==
               cli' = WriteOutput([cli EXCEPT !.args = args,
                                              !.has_formatted = TRUE,
                                              !.formatted = formatted],
                                  args.output, formatted, creatable)
       IN Write(FormatDocument(result.val, ToonFormattingOptions(args)))
    /\ UNCHANGED <<source, scanner, tokens, phase, result, bridge, feature>>
    /\ UNCHANGED svars

\* the formatting handler of the language server on the document state
\* that DocumentState::new builds from the same text
LspFormatting(opts) ==
    /\ phase = "done"
    /\ feature.kind = "none"
    /\ LET Returned(r) ==
               feature' = [feature EXCEPT
                              !.kind = "formatting",
                              !.new_texts = IF r.some THEN <<r.val.new_text>> ELSE <<>>]
       IN Returned(FormattingResponse(
              [text |-> source, version |-> 1,
               ast |-> IF result.ok THEN result.val ELSE None,
               errors |-> result.errors], opts))
    /\ UNCHANGED <<source, scanner, tokens, phase, result, cli, bridge>>
    /\ UNCHANGED svars

FormatNext ==
    \/ ScanStep
    \/ ParseStep
    \/ \E opts \in LspOptions : LspFormatting(opts)
    \/ \E args \in FormatArgs : FormatReject(args)
    \/ \E args \in FormatArgs : FormatCheck(args)
    \/ \E args \in FormatArgs, creatable \in BOOLEAN : FormatWrite(args, creatable)

FormatSpec == FormatInit /\ [][FormatNext]_vars

\* the tree without its spans; a number is kept as its value
RECURSIVE StripSpans(_)
StripSpans(n) ==
    CASE n.kind = "Document" ->
            [kind |-> "Document",
             children |-> [i \in 1..Len(n.children) |-> StripSpans(n.children[i])]]
      [] n.kind = "Object" ->
            [kind |-> "Object",
             entries |-> [i \in 1..Len(n.entries) |->
                             [key |-> n.entries[i].key,
                              value |-> StripSpans(n.entries[i].value)]]]
      [] n.kind = "Array" ->
            [kind |-> "Array", form |-> n.form,
             items |-> [i \in 1..Len(n.items) |-> StripSpans(n.items[i])]]
      [] n.kind = "Number" ->
            [kind |-> "Number", tag |-> n.value.tag, value |-> FormatNumber(n.value)]
      [] n.kind = "String" -> [kind |-> "String", value |-> n.value]
      [] n.kind = "Bool" -> [kind |-> "Bool", value |-> n.value]
      [] OTHER -> [kind |-> n.kind]

\* parse(text) returns a tree, without errors, that equals ast but for spans
ParsesBackTo(text, ast) ==
    LET Reparsed(r) ==
            /\ ~r.hang
            /\ r.errors = <<>>
            /\ r.ast # None
            /\ StripSpans(r.ast) = StripSpans(ast)
    IN Reparsed(ParseWithErrors(text))

\* C13: whenever the formatter has run on a tree that the parser produced
\* without errors, under any valid options, parsing the formatted text gives
\* the same tree up to spans
C13_FormatRoundTrip ==
    cli.has_formatted => ParsesBackTo(cli.formatted, result.val)

(***************************************************************************)
(* The UTF-16 bridge applied to single lines (lsp/utf16.rs)                *)
(***************************************************************************)
MaxChars == 3
LineChars == {"a", "U+00E9", "U+4E2D", "U+1F600"}
LineTexts == UNION {[1..n -> LineChars] : n \in 0..MaxChars}

BridgeInit ==
    /\ bridge \in {[NoBridge EXCEPT !.line = l] : l \in LineTexts}
    /\ source = <<>>
    /\ scanner = ScannerNew
    /\ tokens = <<>>
    /\ phase = "idle"
    /\ result = NoResult
    /\ cli = CliNew
    /\ feature = NoFeature
    /\ StoreNew

\* utf8_to_utf16_col(line, utf8_column)
ToUtf16(utf8_column) ==
    /\ bridge.pc = "idle"
    /\ utf8_column <= ByteLen(bridge.line) + 1
    /\ LET Returned(r) ==
               bridge' = [bridge EXCEPT !.pc = IF r.panic THEN "panicked" ELSE "utf16",
                                        !.column = utf8_column,
                                        !.panic = r.panic,
                                        !.val = r.val]
       IN Returned(Utf8ToUtf16Col(bridge.line, utf8_column))
    /\ UNCHANGED <<source, scanner, tokens, phase, result, cli, feature>>
    /\ UNCHANGED svars

\* utf16_to_utf8_col(line, utf16_column)
ToUtf8(utf16_column) ==
    /\ bridge.pc = "idle"
    /\ utf16_column <= Utf16Units(bridge.line) + 1
    /\ bridge' = [bridge EXCEPT !.pc = "utf8",
                                !.column = utf16_column,
                                !.val = Utf16ToUtf8Col(bridge.line, utf16_column)]
    /\ UNCHANGED <<source, scanner, tokens, phase, result, cli, feature>>
    /\ UNCHANGED svars

\* utf16_to_utf8_col on the column that utf8_to_utf16_col returned
BackToUtf8 ==
    /\ bridge.pc = "utf16"
    /\ bridge' = [bridge EXCEPT !.pc = "utf8_back",
                                !.back = Utf16ToUtf8Col(bridge.line, bridge.val)]
    /\ UNCHANGED <<source, scanner, tokens, phase, result, cli, feature>>
    /\ UNCHANGED svars

\* utf8_to_utf16_col on the column that utf16_to_utf8_col returned
BackToUtf16 ==
    /\ bridge.pc = "utf8"
    /\ LET Returned(r) ==
               bridge' = [bridge EXCEPT !.pc = IF r.panic THEN "back_panicked"
                                                ELSE "utf16_back",
                                        !.panic = r.panic,
                                        !.back = r.val]
       IN Returned(Utf8ToUtf16Col(bridge.line, bridge.val))
    /\ UNCHANGED <<source, scanner, tokens, phase, result, cli, feature>>
    /\ UNCHANGED svars

MaxColumn == 4 * MaxChars + 1

BridgeNext ==
    \/ \E utf8_column \in 0..MaxColumn : ToUtf16(utf8_column)
    \/ \E utf16_column \in 0..MaxColumn : ToUtf8(utf16_column)
    \/ BackToUtf8
    \/ BackToUtf16

BridgeSpec == BridgeInit /\ [][BridgeNext]_vars

\* the UTF-16 offsets of the line that lie on a character boundary
IsUtf16Boundary(text, units) ==
    \E k \in 0..Len(text) : Utf16Units(SubSeq(text, 1, k)) = units
\* the number of characters that end at or before the byte offset
CharsBelowByte(text, byte) ==
    Cardinality({k \in 1..Len(text) : ByteLen(SubSeq(text, 1, k)) <= byte})
\* the number of characters that end at or before the UTF-16 offset
CharsBelowUnit(text, units) ==
    Cardinality({k \in 1..Len(text) : Utf16Units(SubSeq(text, 1, k)) <= units})

\* C14: a byte offset on a character boundary of the line, converted to
\* UTF-16 and back, is returned unchanged, and so is a UTF-16 offset on a
\* character boundary converted to bytes and back; neither conversion fails
C14_BridgeRoundTrip ==
    /\ bridge.pc = "panicked" => ~IsCharBoundary(bridge.line, bridge.column)
    /\ (bridge.pc = "utf8_back" /\ IsCharBoundary(bridge.line, bridge.column))
          => bridge.back = bridge.column
    /\ (bridge.pc \in {"utf16_back", "back_panicked"}
        /\ IsUtf16Boundary(bridge.line, bridge.column))
          => bridge.pc = "utf16_back" /\ bridge.back = bridge.column

\* a round trip done on an offset behind a character of two UTF-16 units
C14_Witness ==
    /\ bridge.line = <<"a", "U+1F600", "U+00E9">>
    /\ \/ bridge.pc = "utf8_back" /\ bridge.column = 5 /\ bridge.val = 3
       \/ bridge.pc = "utf16_back" /\ bridge.column = 3 /\ bridge.val = 5

\* C15: a byte offset inside a multi-byte character is converted as the
\* offset of the start of that character, and a UTF-16 offset inside a
\* surrogate pair as the offset of the start of the pair
C15_RoundsDown ==
    /\ (bridge.pc \in {"utf16", "panicked"}
        /\ bridge.column < ByteLen(bridge.line)
        /\ ~IsCharBoundary(bridge.line, bridge.column))
          => /\ ~bridge.panic
             /\ bridge.val = Utf16Units(SubSeq(bridge.line, 1,
                                 CharsBelowByte(bridge.line, bridge.column)))
    /\ (bridge.pc = "utf8"
        /\ bridge.column < Utf16Units(bridge.line)
        /\ ~IsUtf16Boundary(bridge.line, bridge.column))
          => bridge.val = ByteLen(SubSeq(bridge.line, 1,
                                 CharsBelowUnit(bridge.line, bridge.column)))

(***************************************************************************)
(* References and rename (lsp/ast_utils.rs, references.rs, rename.rs)      *)
(***************************************************************************)
\* calculate_offset: the byte offset of (line, column). references.rs and
\* rename.rs import it from ast_utils; the definition at hand is the one of
\* the same name and signature in hover.rs
RECURSIVE CalculateOffsetLoop(_, _, _, _, _, _, _)
CalculateOffsetLoop(text, line, column, i, idx, current_line, offset) ==
    IF i > Len(text)
    THEN IF current_line = line THEN SomeOf(idx) ELSE NoneOf(0)
    ELSE IF current_line = line /\ idx - offset >= column
    THEN SomeOf(idx)
    ELSE IF text[i] = NL
    THEN IF current_line = line
         THEN NoneOf(0)
         ELSE CalculateOffsetLoop(text, line, column, i + 1, idx + 1,
                                  current_line + 1, idx + 1)
    ELSE CalculateOffsetLoop(text, line, column, i + 1, idx + Utf8Len(text[i]),
                             current_line, offset)
CalculateOffset(text, line, column) ==
    CalculateOffsetLoop(text, line, column, 1, 0, 0, 0)

\* Span::contains
SpanContains(span, pos) ==
    pos.offset >= span.start.offset /\ pos.offset < span.end.offset

\* the first index of the sequence that satisfies Test, 0 when there is none
FirstIndex(seq, Test(_)) ==
    IF \E i \in 1..Len(seq) : Test(seq[i])
    THEN CHOOSE i \in 1..Len(seq) : Test(seq[i]) /\ \A j \in 1..(i - 1) : ~Test(seq[j])
    ELSE 0

\* the loop of find_node_at_position from node `current` on: the entry whose
\* key the position is on, if any
RECURSIVE FindOnKey(_, _)
FindOnKey(current, pos) ==
    CASE current.kind = "Document" ->
            \* find_child_containing
            LET Inside(child) == SpanContains(child.span, pos)
                Found(i) == IF i = 0 THEN NoneOf(None)
                            ELSE FindOnKey(current.children[i], pos)
            IN Found(FirstIndex(current.children, Inside))
      [] current.kind = "Object" ->
            \* find_entry_containing
            LET Inside(entry) == \/ SpanContains(entry.key_span, pos)
                                 \/ SpanContains(entry.value.span, pos)
                Found(i) ==
                    IF i = 0 THEN NoneOf(None)
                    ELSE IF SpanContains(current.entries[i].key_span, pos)
                    THEN SomeOf(current.entries[i])
                    ELSE FindOnKey(current.entries[i].value, pos)
            IN Found(FirstIndex(current.entries, Inside))
      [] current.kind = "Array" ->
            \* find_item_containing
            LET Inside(item) == SpanContains(item.span, pos)
                Found(i) == IF i = 0 THEN NoneOf(None)
                            ELSE FindOnKey(current.items[i], pos)
            IN Found(FirstIndex(current.items, Inside))
      [] OTHER -> NoneOf(None)

\* find_node_at_position, reduced to its on_key field
FindNodeAtPosition(root, line, column, offset) ==
    IF ~SpanContains(root.span, Position(line, column, offset))
    THEN NoneOf(None)
    ELSE FindOnKey(root, Position(line, column, offset))

\* collect_all_keys: every (key, key_span) of the tree, in document order
RECURSIVE CollectAllKeys(_)
CollectAllKeys(n) ==
    CASE n.kind = "Object" ->
            Flatten([i \in 1..Len(n.entries) |->
                        <<[key |-> n.entries[i].key, span |-> n.entries[i].key_span]>>
                        \o CollectAllKeys(n.entries[i].value)])
      [] OTHER ->
            Flatten([i \in 1..Len(Children(n)) |-> CollectAllKeys(Children(n)[i])])

\* sort_by on (start.line, start.column), a stable sort
LineColumnBefore(a, b) ==
    \/ a.start.line < b.start.line
    \/ a.start.line = b.start.line /\ a.start.column < b.start.column
RECURSIVE SortByLineColumn(_)
SortByLineColumn(spans) ==
    IF spans = <<>> THEN <<>>
    ELSE LET InsertSpan(sorted, sp) ==
                 LET k == Cardinality({i \in 1..Len(sorted) :
                                          ~LineColumnBefore(sp, sorted[i])})
                 IN SubSeq(sorted, 1, k) \o <<sp>> \o SubSeq(sorted, k + 1, Len(sorted))
         IN InsertSpan(SortByLineColumn(Front(spans)), Last(spans))

\* the spans of the keys of the tree that equal key_name, sorted
KeySpansNamed(ast, key_name) ==
    LET Named(k) == k.key = key_name
        SpansOf(keys) == [i \in 1..Len(keys) |-> keys[i].span]
    IN SortByLineColumn(SpansOf(SelectSeq(CollectAllKeys(ast), Named)))

\* find_references_at_position: the spans of the references returned
FindReferencesAtPosition(ast, text, line, col, include_declaration) ==
    LET At(offset) ==
            LET OnKey(found) ==
                    LET NotAtCursor(sp) ==
                            ~SpanContains(sp, Position(line, col, offset.val))
                    IN IF ~found.some THEN <<>>
                       ELSE IF include_declaration
                       THEN KeySpansNamed(ast, found.val.key)
                       ELSE SelectSeq(KeySpansNamed(ast, found.val.key), NotAtCursor)
            IN IF ~offset.some THEN <<>>
               ELSE OnKey(FindNodeAtPosition(ast, line, col, offset.val))
    IN At(CalculateOffset(text, line, col))

\* prepare_rename: the entry under the cursor
PrepareRename(ast, text, line, col) ==
    LET At(offset) ==
            IF ~offset.some THEN NoneOf(None)
            ELSE FindNodeAtPosition(ast, line, col, offset.val)
    IN At(CalculateOffset(text, line, col))

\* a rename that edits only the key under the cursor
RenameKeyUnderCursorOnly(ast, text, line, col, new_name) ==
    LET Prepared(found) ==
            IF ~found.some THEN <<>>
            ELSE <<[span |-> found.val.key_span, new_text |-> new_name]>>
    IN Prepared(PrepareRename(ast, text, line, col))

\* rename_key: the edits returned
RenameKey(ast, text, line, col, new_name) ==
    LET Prepared(found) ==
            LET Edits(spans) ==
                    [i \in 1..Len(spans) |-> [span |-> spans[i], new_text |-> new_name]]
            IN IF ~found.some THEN <<>>
               ELSE Edits(KeySpansNamed(ast, found.val.key))
    IN Prepared(PrepareRename(ast, text, line, col))

(***************************************************************************)
(* Semantic tokens (lsp/semantic_tokens.rs)                                *)
(***************************************************************************)
\* SemanticToken::from_span: the line and column of the span's start, the
\* length the difference of the byte offsets
FromSpan(span, token_type, modifiers) ==
    [line |-> span.start.line,
     start_col |-> span.start.column,
     length |-> span.end.offset - span.start.offset,
     token_type |-> token_type,
     modifiers |-> modifiers]

\* visit_node: depth first, the key of an entry before its value
RECURSIVE VisitNode(_)
VisitNode(node) ==
    CASE node.kind = "Document" ->
            Flatten([i \in 1..Len(node.children) |-> VisitNode(node.children[i])])
      [] node.kind = "Object" ->
            Flatten([i \in 1..Len(node.entries) |->
                        <<FromSpan(node.entries[i].key_span, "Property", "DEFINITION")>>
                            \o VisitNode(node.entries[i].value)])
      [] node.kind = "Array" ->
            Flatten([i \in 1..Len(node.items) |-> VisitNode(node.items[i])])
      [] node.kind = "String" -> <<FromSpan(node.span, "String", "READONLY")>>
      [] node.kind = "Number" -> <<FromSpan(node.span, "Number", "READONLY")>>
      [] node.kind \in {"Bool", "Null"} -> <<FromSpan(node.span, "Keyword", "READONLY")>>
      [] OTHER -> <<>>

CollectSemanticTokens(ast) == VisitNode(ast)

\* a - b in u32: underflow tells that b > a, where a debug build panics and
\* a release build wraps to 2^32 + val
SubU32(a, b) == [underflow |-> a < b, val |-> a - b]

\* the loop of encode_tokens from token i on; a slice inside a character
\* panics in utf8_to_utf16_col, an underflow panics in a debug build
RECURSIVE EncodeLoop(_, _, _, _, _, _, _)
EncodeLoop(toks, lines, i, prev_line, prev_col, encoded, debug) ==
    IF i > Len(toks) THEN [panic |-> FALSE, val |-> encoded]
    ELSE LET token == toks[i]
             delta_line == SubU32(token.line, prev_line)
             line_text == IF token.line < Len(lines) THEN lines[token.line + 1] ELSE <<>>
             utf16_col == Utf8ToUtf16Col(line_text, token.start_col)
             utf16_end == Utf8ToUtf16Col(line_text, token.start_col + token.length)
             utf16_length == SubU32(utf16_end.val, utf16_col.val)
             prev_utf16_col == Utf8ToUtf16Col(line_text, prev_col)
             same_line == ~delta_line.underflow /\ delta_line.val = 0
             delta_start == IF same_line
                            THEN SubU32(utf16_col.val, prev_utf16_col.val)
                            ELSE [underflow |-> FALSE, val |-> utf16_col.val]
             underflow == delta_line.underflow \/ utf16_length.underflow
                             \/ delta_start.underflow
         IN IF \/ utf16_col.panic \/ utf16_end.panic
               \/ (same_line /\ prev_utf16_col.panic)
               \/ (debug /\ underflow)
            THEN [panic |-> TRUE, val |-> encoded]
            ELSE EncodeLoop(toks, lines, i + 1, token.line, token.start_col,
                            Append(encoded,
                                   [delta_line |-> delta_line.val,
                                    delta_start |-> delta_start.val,
                                    length |-> utf16_length.val,
                                    token_type |-> token.token_type,
                                    token_modifiers_bitset |-> token.modifiers,
                                    underflow |-> underflow]),
                            debug)

\* encode_tokens
EncodeTokens(toks, text, debug) ==
    LET Split(lines) == EncodeLoop(toks, lines, 1, 0, 0, <<>>, debug)
    IN Split(LinesOf(text))

MaxFeatureLines == 2
MaxCursorLine == 2
MaxCursorCol == 6
NewNames == {<<"z">>, <<"i", "d", "2">>}

\* test_find_references_include_declaration, test_find_references_exact_match
SrcIdTwice ==
    <<"i", "d", ":", " ", "1", NL, "d", "a", "t", "a", ":", NL,
      " ", " ", "i", "d", ":", " ", "2">>
SrcNameFullname ==
    <<"n", "a", "m", "e", ":", " ", "x", NL,
      "f", "u", "l", "l", "n", "a", "m", "e", ":", " ", "y">>
\* a tabular array of three fields, and values behind a character of two
\* bytes and one of four bytes on the same line
SrcThreeFields ==
    <<"t", "[", "1", "]", "{", "a", ",", "b", ",", "c", "}", ":", NL,
      " ", " ", "1", ",", "2", ",", "3">>
SrcTwoByteChar ==
    <<"a", "[", "2", "]", ":", " ", QUOTE, "U+00E9", QUOTE, ",", "x">>
SrcFourByteChar ==
    <<"a", "[", "2", "]", ":", " ", QUOTE, "U+1F600", QUOTE, ",", "x">>
SrcNonAsciiValue == <<"k", ":", " ", QUOTE, "U+4E2D", QUOTE>>
FeatureInputs ==
    Corpus \cup {SrcIdTwice, SrcNameFullname, SrcQuotedKey}
    \cup {SrcThreeFields, SrcTwoByteChar, SrcFourByteChar, SrcNonAsciiValue}
    \cup {JoinLines(ls) : ls \in UNION {[1..n -> Lines] : n \in 1..MaxFeatureLines}}

\* a document parsed, no feature service called yet
FeatureInit ==
    /\ source \in FeatureInputs
    /\ scanner = ScannerNew
    /\ tokens = <<>>
    /\ phase = "scan"
    /\ result = NoResult
    /\ cli = CliNew
    /\ bridge = NoBridge
    /\ feature = NoFeature
    /\ StoreNew

\* find_references_at_position on the parsed tree
References(line, col, include_declaration) ==
    /\ phase = "done"
    /\ result.ok
    /\ feature.kind = "none"
    /\ LET Returned(refs) ==
               feature' = [feature EXCEPT !.kind = "references",
                                          !.line = line,
                                          !.col = col,
                                          !.include_declaration = include_declaration,
                                          !.spans = refs]
       IN Returned(FindReferencesAtPosition(result.val, source, line, col,
                                            include_declaration))
    /\ UNCHANGED <<source, scanner, tokens, phase, result, cli, bridge>>
    /\ UNCHANGED svars

\* rename_key on the parsed tree
Rename(line, col, new_name) ==
    /\ phase = "done"
    /\ result.ok
    /\ feature.kind = "none"
    /\ LET Returned(edits) ==
               feature' = [feature EXCEPT
                              !.kind = "rename",
                              !.line = line,
                              !.col = col,
                              !.new_name = new_name,
                              !.spans = [i \in 1..Len(edits) |-> edits[i].span],
                              !.new_texts = [i \in 1..Len(edits) |-> edits[i].new_text]]
       IN Returned(RenameKey(result.val, source, line, col, new_name))
    /\ UNCHANGED <<source, scanner, tokens, phase, result, cli, bridge>>
    /\ UNCHANGED svars

\* semantic_tokens_full on the parsed tree: the tokens are collected and
\* encoded; debug tells whether the build checks integer overflow
SemanticTokensFull(debug) ==
    /\ phase = "done"
    /\ result.ok
    /\ feature.kind = "none"
    /\ LET Encoded(toks, e) ==
               feature' = [feature EXCEPT !.kind = "semantic_tokens",
                                          !.tokens = toks,
                                          !.encoded = e.val,
                                          !.panic = e.panic]
           Collected(toks) == Encoded(toks, EncodeTokens(toks, source, debug))
       IN Collected(CollectSemanticTokens(result.val))
    /\ UNCHANGED <<source, scanner, tokens, phase, result, cli, bridge>>
    /\ UNCHANGED svars

FeatureNext ==
    \/ ScanStep
    \/ ParseStep
    \/ \E line \in 0..MaxCursorLine, col \in 0..MaxCursorCol, incl \in BOOLEAN :
          References(line, col, incl)
    \/ \E line \in 0..MaxCursorLine, col \in 0..MaxCursorCol, new_name \in NewNames :
          Rename(line, col, new_name)
    \/ \E debug \in BOOLEAN : SemanticTokensFull(debug)

FeatureSpec == FeatureInit /\ [][FeatureNext]_vars

\* the entry whose key the cursor of the request is on
CursorKey == PrepareRename(result.val, source, feature.line, feature.col)
CursorPosition ==
    Position(feature.line, feature.col,
             CalculateOffset(source, feature.line, feature.col).val)
ReturnedSpans == {feature.spans[i] : i \in 1..Len(feature.spans)}
\* the key spans of the document whose source text is the key
KeySpansWithText(key) ==
    {e.key_span : e \in {x \in Entries(result.val) :
                            /\ ValidSpan(x.key_span, source)
                            /\ IsKeyText(SourceText(source, x.key_span), key)}}

\* C16: with the cursor on a key K, references returns exactly the key spans
\* of the document whose source text is K (less the one under the cursor
\* when the declaration is excluded): each returned span reads K, and no key
\* span that reads K is missing
C16_ReferencesExact ==
    (feature.kind = "references" /\ CursorKey.some)
       => /\ \A sp \in ReturnedSpans :
                /\ ValidSpan(sp, source)
                /\ IsKeyText(SourceText(source, sp), CursorKey.val.key)
          /\ \A sp \in KeySpansWithText(CursorKey.val.key) :
                \/ sp \in ReturnedSpans
                \/ ~feature.include_declaration /\ SpanContains(sp, CursorPosition)

\* C17: with the cursor on a key K, rename returns as many edits as
\* references with include_declaration = true returns spans, and each edit
\* carries the new name
C17_RenameMatchesReferences ==
    feature.kind = "rename"
       => /\ Len(feature.spans)
                = Len(FindReferencesAtPosition(result.val, source,
                                               feature.line, feature.col, TRUE))
          /\ \A i \in 1..Len(feature.new_texts) : feature.new_texts[i] = feature.new_name

\* a rename on a key that occurs twice
C17_Witness ==
    /\ feature.kind = "rename"
    /\ CursorKey.some
    /\ Len(feature.spans) = 2
    /\ feature.spans[1] # feature.spans[2]

\* C19: a document whose error list is not empty is not formatted: the
\* format command exits without formatted text on standard output or in a
\* file, and the formatting handler returns no edit
C19_NoFormatWithErrors ==
    result.errors # <<>>
       => /\ cli.exited
                => /\ ~cli.has_formatted
                   /\ cli.stdout = <<>>
                   /\ cli.files = [CliNew.files EXCEPT
                                      !["in"] = [exists |-> TRUE, content |-> source]]
          /\ feature.kind = "formatting" => feature.new_texts = <<>>

\* the command has exited and the handler has answered for a document that
\* has a tree and errors
C19_Witness ==
    /\ result.errors # <<>>
    /\ result.ok
    /\ cli.exited
    /\ cli.code = ExitValidationFailed
    /\ feature.kind = "formatting"

\* C20: the format command run with --check exits with a non-zero code
\* when the formatted text differs from the input, and creates or modifies
\* no file and writes nothing to standard output
C20_CheckWritesNothing ==
    (cli.exited /\ cli.args.check)
       => /\ (cli.has_formatted /\ cli.formatted # source) => cli.code # ExitSuccess
          /\ cli.stdout = <<>>
          /\ cli.files = [CliNew.files EXCEPT
                             !["in"] = [exists |-> TRUE, content |-> source]]

\* a check of a text that formatting would change
C20_Witness ==
    /\ cli.exited
    /\ cli.args.check
    /\ cli.has_formatted
    /\ cli.formatted # source
    /\ cli.code = ExitError

\* C18: a request on a URI that has no open document, or on a document
\* without a tree, returns Ok(None): an empty result and no error
C18_MissingDocumentAbsorbed ==
    \A h \in Handlers :
        (/\ handler[h].kind = "request"
         /\ handler[h].pc = "done"
         /\ handler[h].arc = 0 \/ handler[h].snap.ast = None)
           => handler[h].response = OkResponse(FALSE)

\* a request has returned for a URI without a document, after the editor
\* opened some document
C18_Witness ==
    \E h \in Handlers :
        /\ handler[h].kind = "request"
        /\ handler[h].pc = "done"
        /\ handler[h].arc = 0
        /\ handler[h].response.returned
        /\ \E u \in URIs : documents[u] # 0 \/ lastDelivered[u] # NoChange

(***************************************************************************)
(* The check, diagnose and encode commands (cli/check.rs, cli/diagnose.rs, *)
(* cli/encode.rs, cli/error.rs, main.rs).  cli holds the command line, the *)
(* files and standard input it reads, what it wrote and its exit code.     *)
(***************************************************************************)
MaxFiles == 3
\* the path "-" and the name given to standard input
StdinPath == 0
FilePaths == 1..MaxFiles
\* texts on which parse_with_errors returns
FileTexts == DocTexts \ {TxtHang}
FileStates == {NoFile} \cup {[exists |-> TRUE, content |-> t] : t \in FileTexts}

\* impl From<&CliError> for ExitCode
ExitCodeFrom(error) ==
    IF error \in {"Validation", "Format"} THEN ExitValidationFailed ELSE ExitError

\* check::error_exit_code
CheckErrorExitCode(error) ==
    IF error = "Validation" THEN ExitValidationFailed ELSE ExitCodeFrom(error)

\* main: Err(e) of execute is printed and becomes the exit code
ExitWith(c, error, code) ==
    [c EXCEPT !.pc = "exited", !.exited = TRUE, !.error = error, !.code = code]
\* main: Ok(()) of execute falls off the end of main
ExitOk(c) == [c EXCEPT !.pc = "exited", !.exited = TRUE, !.code = ExitSuccess]

\* a command before main calls its execute
BatchNew(command, args, files, stdin) ==
    [command |-> command, args |-> args, files |-> files, stdin |-> stdin,
     pc |-> "start", index |-> 1, results |-> <<>>,
     stderr |-> <<>>, stdout |-> <<>>,
     exited |-> FALSE, error |-> "none", code |-> 0]

\* check_content: one Diagnostic per parse error, 1-indexed for display
CheckContent(content, file) ==
    LET Diagnostics(errors) ==
            [i \in 1..Len(errors) |->
                [file |-> file,
                 line |-> errors[i].span.start.line + 1,
                 column |-> errors[i].span.start.column + 1,
                 message |-> errors[i].kind]]
    IN Diagnostics(ParsedTexts[content].errors)

\* the command lines of check: no file, "-", or the first files of the disk
CheckInputs ==
    {<<>>, <<StdinPath>>} \cup {[i \in 1..n |-> i] : n \in 1..MaxFiles}

\* check_files with no input file or the single "-": standard input is checked
CheckStdin ==
    /\ cli.command = "check"
    /\ cli.pc = "start"
    /\ cli.args.input = <<>> \/ cli.args.input = <<StdinPath>>
    /\ cli' = [cli EXCEPT
                  !.pc = "report",
                  !.results = <<[file |-> StdinPath,
                                 diagnostics |-> CheckContent(cli.stdin, StdinPath)]>>]
    /\ UNCHANGED <<source, scanner, tokens, phase, result, bridge, feature>>
    /\ UNCHANGED svars

\* one iteration of the loop of check_files: check_single_file(path)? reads
\* the file and checks it; a file that cannot be read returns Err(CliError::Io)
\* from check_files and execute, and main exits
CheckSingleFile ==
    /\ cli.command = "check"
    /\ cli.pc \in {"start", "files"}
    /\ ~(cli.args.input = <<>> \/ cli.args.input = <<StdinPath>>)
    /\ cli.index <= Len(cli.args.input)
    /\ LET Checked(path, file) ==
               IF ~file.exists
               THEN cli' = ExitWith(cli, "Io", CheckErrorExitCode("Io"))
               ELSE cli' = [cli EXCEPT
                               !.pc = IF cli.index = Len(cli.args.input)
                                      THEN "report" ELSE "files",
                               !.index = @ + 1,
                               !.results = Append(@,
                                   [file |-> path,
                                    diagnostics |-> CheckContent(file.content, path)])]
       IN Checked(cli.args.input[cli.index], cli.files[cli.args.input[cli.index]])
    /\ UNCHANGED <<source, scanner, tokens, phase, result, bridge, feature>>
    /\ UNCHANGED svars

\* flat_map over the results
AllDiagnostics(results) ==
    Flatten([i \in 1..Len(results) |-> results[i].diagnostics])

\* execute after check_files returned Ok: the diagnostics of all results
\* are reported on standard error and the command fails with Validation
CheckReport ==
    /\ cli.command = "check"
    /\ cli.pc = "report"
    /\ LET Reported(all) ==
               IF all # <<>>
               THEN cli' = ExitWith([cli EXCEPT !.stderr = all], "Validation",
                                    CheckErrorExitCode("Validation"))
               ELSE cli' = ExitOk(cli)
       IN Reported(AllDiagnostics(cli.results))
    /\ UNCHANGED <<source, scanner, tokens, phase, result, bridge, feature>>
    /\ UNCHANGED svars

\* Option<PathBuf>: <<>> is None, <<p>> is Some(p)
OptionalInputs == {<<>>, <<StdinPath>>, <<1>>}

\* io_utils::read_input: standard input for None and "-", else the file;
\* a file that cannot be opened is Err(CliError::Io)
ReadInput(c, input) ==
    IF input = <<>> \/ input = <<StdinPath>>
    THEN [ok |-> TRUE, content |-> c.stdin]
    ELSE IF c.files[input[1]].exists
    THEN [ok |-> TRUE, content |-> c.files[input[1]].content]
    ELSE [ok |-> FALSE, content |-> <<>>]

\* enum Severity in its derived order
Severities == <<"Hint", "Info", "Warning", "Error">>
SeverityRank(severity) == CHOOSE i \in 1..Len(Severities) : Severities[i] = severity

\* diagnose::error_code
ErrorCode(kind) ==
    CASE kind = "UnexpectedChar" -> 1
      [] kind = "UnexpectedToken" -> 2
      [] kind = "ExpectedColon" -> 3
      [] kind = "ExpectedValue" -> 4
      [] kind = "ExpectedKey" -> 5
      [] kind = "InvalidNumber" -> 6
      [] kind = "UnterminatedString" -> 7
      [] kind = "InvalidEscape" -> 8
      [] kind = "InvalidIndent" -> 9
      [] kind = "UnexpectedEof" -> 10
      [] kind = "DuplicateKey" -> 11
      [] kind = "MaxDepthExceeded" -> 12
      [] kind = "DocumentTooLarge" -> 13
      [] kind = "TooManyArrayItems" -> 14
      [] OTHER -> 15

\* extract_context: the line the span starts on, if the content has it
ExtractContext(content, span) ==
    LET Line(lines) == IF span.start.line < Len(lines)
                       THEN SomeOf(lines[span.start.line + 1])
                       ELSE NoneOf(<<>>)
    IN Line(LinesOf(content))

\* generate_diagnostics: one entry per parse error whose severity (always
\* Error) is not below min_severity, and the summary counts
GenerateDiagnostics(content, file_name, include_context, min_severity) ==
    LET Entry(err) ==
            [range |-> [start |-> [line |-> err.span.start.line,
                                   character |-> err.span.start.column],
                        end |-> [line |-> err.span.end.line,
                                 character |-> err.span.end.column]],
             severity |-> "error",
             code |-> ErrorCode(err.kind),
             message |-> err.kind,
             source |-> "toon-lsp",
             context |-> IF include_context
                         THEN ExtractContext(content, err.span)
                         ELSE NoneOf(<<>>)]
        Report(errors) ==
            LET kept == IF SeverityRank("Error") < SeverityRank(min_severity)
                        THEN <<>>
                        ELSE [i \in 1..Len(errors) |-> Entry(errors[i])]
            IN [file |-> file_name,
                diagnostics |-> kept,
                summary |-> [errors |-> Len(kept), warnings |-> 0, hints |-> 0]]
    IN Report(ParsedTexts[content].errors)

DiagnoseArgs ==
    [input : OptionalInputs, format : {"Json", "Sarif"}, context : BOOLEAN,
     severity : {Severities[i] : i \in 1..Len(Severities)}]

\* diagnose::execute and its caller in main: read_input, generate_diagnostics,
\* the report in the requested format written to standard output; writable
\* tells whether the write succeeds
DiagnoseExecute(writable) ==
    /\ cli.command = "diagnose"
    /\ cli.pc = "start"
    /\ LET Read(r) ==
               IF ~r.ok
               THEN cli' = ExitWith(cli, "Io", ExitCodeFrom("Io"))
               ELSE IF ~writable
               THEN cli' = ExitWith(cli, "Io", ExitCodeFrom("Io"))
               ELSE cli' = ExitOk([cli EXCEPT !.stdout =
                               <<[format |-> cli.args.format,
                                  report |-> GenerateDiagnostics(
                                      r.content,
                                      IF cli.args.input = <<>> THEN "stdin"
                                      ELSE cli.args.input[1],
                                      cli.args.context, cli.args.severity)]>>])
       IN Read(ReadInput(cli, cli.args.input))
    /\ UNCHANGED <<source, scanner, tokens, phase, result, bridge, feature>>
    /\ UNCHANGED svars

\* what an input of encode holds: a JSON text (which YAML reads too), a
\* YAML text that is not JSON, or a text that is neither
InputKinds == {"json", "yaml", "neither"}
EncodeFileStates == {NoFile} \cup {[exists |-> TRUE, content |-> k] : k \in InputKinds}

\* the extension of the input path, and str::to_lowercase of it
Extensions == {"json", "JSON", "yaml", "yml", "txt"}
ToLowercase(ext) == IF ext = "JSON" THEN "json" ELSE ext

EncodeArgs ==
    [input : OptionalInputs, ext : Extensions, output : {<<>>, <<2>>},
     input_format : {"Json", "Yaml"}]

\* detect_input_format: the extension of a file path decides, else the flag
DetectInputFormat(args) ==
    IF args.input # <<>> /\ args.input # <<StdinPath>>
    THEN CASE ToLowercase(args.ext) = "json" -> "Json"
           [] ToLowercase(args.ext) \in {"yaml", "yml"} -> "Yaml"
           [] OTHER -> args.input_format
    ELSE args.input_format

\* parse_input: read_json or read_yaml; a syntax error is CliError::Json or
\* CliError::Yaml through the From conversions
ParseInput(kind, format) ==
    IF format = "Json"
    THEN (IF kind = "json" THEN [ok |-> TRUE, error |-> "none"]
          ELSE [ok |-> FALSE, error |-> "Json"])
    ELSE (IF kind \in {"json", "yaml"} THEN [ok |-> TRUE, error |-> "none"]
          ELSE [ok |-> FALSE, error |-> "Yaml"])

\* encode::execute and its caller in main: the format is detected, the input
\* read and parsed, the value encoded and written; encodable tells whether
\* toon_format encodes the value, creatable whether the output can be written
EncodeExecute(encodable, creatable) ==
    /\ cli.command = "encode"
    /\ cli.pc = "start"
    /\ LET Fail(error) == cli' = ExitWith(cli, error, ExitCodeFrom(error))
           Read(r, format) ==
               IF ~r.ok THEN Fail("Io")
               ELSE IF ~ParseInput(r.content, format).ok
               THEN Fail(ParseInput(r.content, format).error)
               ELSE IF ~encodable THEN Fail("Encode")
               ELSE IF ~creatable THEN Fail("Io")
               ELSE IF cli.args.output = <<>>
               THEN cli' = ExitOk([cli EXCEPT !.stdout = <<"toon">>])
               ELSE cli' = ExitOk([cli EXCEPT !.files[cli.args.output[1]] =
                                       [exists |-> TRUE, content |-> "toon"]])
       IN Read(ReadInput(cli, cli.args.input), DetectInputFormat(cli.args))
    /\ UNCHANGED <<source, scanner, tokens, phase, result, bridge, feature>>
    /\ UNCHANGED svars

\* main before execute, for each command line and each content of the disk
BatchInit ==
    /\ source = <<>>
    /\ scanner = ScannerNew
    /\ tokens = <<>>
    /\ phase = "batch"
    /\ result = NoResult
    /\ cli \in {BatchNew("check", [input |-> input], files, stdin) :
                    input \in CheckInputs,
                    files \in [FilePaths -> FileStates],
                    stdin \in FileTexts}
          \cup {BatchNew("diagnose", args, files, stdin) :
                    args \in DiagnoseArgs,
                    files \in [FilePaths -> FileStates],
                    stdin \in FileTexts}
          \cup {BatchNew("encode", args, files, stdin) :
                    args \in EncodeArgs,
                    files \in [FilePaths -> EncodeFileStates],
                    stdin \in InputKinds}
    /\ bridge = NoBridge
    /\ feature = NoFeature
    /\ StoreNew

BatchNext ==
    \/ CheckStdin
    \/ CheckSingleFile
    \/ CheckReport
    \/ \E writable \in BOOLEAN : DiagnoseExecute(writable)
    \/ \E encodable \in BOOLEAN, creatable \in BOOLEAN :
           EncodeExecute(encodable, creatable)

BatchSpec == BatchInit /\ [][BatchNext]_vars

\* the files named on the command line of check
CheckedFiles == {cli.args.input[i] : i \in 1..Len(cli.args.input)} \ {StdinPath}

\* the diagnostics ds are all on standard error, and if there are any the
\* exit code is 2
ReportedWithCode(c, ds) ==
    /\ \A i \in 1..Len(ds) : \E j \in 1..Len(c.stderr) : c.stderr[j] = ds[i]
    /\ ds # <<>> => c.code = ExitValidationFailed

\* C21: when check has exited, every file named was processed and each of
\* its errors is reported on standard error, and the exit code is 2 if any
\* named file is invalid
C21_BatchReportsAll ==
    (cli.command = "check" /\ cli.exited)
       => \A p \in CheckedFiles :
              cli.files[p].exists
                 => ReportedWithCode(cli, CheckContent(cli.files[p].content, p))

\* C22: the diagnose command exits with code 0 for every invocation
C22_DiagnoseAlwaysSucceeds ==
    (cli.command = "diagnose" /\ cli.exited) => cli.code = ExitSuccess

\* C23: the encode command exits with code 2 when its JSON or YAML input
\* fails to parse, and with code 1 on an I/O failure
C23_EncodeExitCodes ==
    (cli.command = "encode" /\ cli.exited)
       => /\ cli.error \in {"Json", "Yaml"} => cli.code = ExitValidationFailed
          /\ cli.error = "Io" => cli.code = ExitError

\* C24: once every handler has completed, the publishDiagnostics sent last
\* for a URI carries the translated error list of the stored state if the
\* URI is open, and an empty list if it is closed
C24_LastPublishAgreesWithStore ==
    \A u \in URIs :
        (AllHandled /\ published[u].some) =>
            IF documents[u] # 0
            THEN published[u].diags =
                     ErrorsToDiagnostics(docs[documents[u]].errors,
                                         docs[documents[u]].text).val
            ELSE published[u].diags = <<>>

\* the tokens the parser had not consumed when parse_document returned
LayoutKinds == {"Newline", "Indent", "Dedent", "Eof"}
UnparsedTokens == SubSeq(tokens, result.position + 1, Len(tokens))

\* C25: when parse_with_errors returns an empty error list the parser has
\* consumed the whole token stream: only layout tokens (Newline, Indent,
\* Dedent, Eof) are left unparsed
C25_NoErrorsNothingDropped ==
    (phase = "done" /\ result.errors = <<>>)
       => \A i \in 1..Len(UnparsedTokens) : UnparsedTokens[i].kind \in LayoutKinds

\* the leading spaces of the line the scanner stands at, and whether a tab
\* is among them
LineIndent == CountLeadingSpaces(source, scanner, 0, FALSE)
\* the levels of an indent stack above n, and the stack without them
LevelsAbove(stack, n) == Cardinality({i \in 1..Len(stack) : stack[i] > n})
LevelsUpTo(stack, n) == SelectSeq(stack, LAMBDA level : level <= n)
DedentCount(tok) == IF tok.kind = "Dedent" THEN 1 ELSE 0

\* the token request at the start of a line whose indent n is below the top:
\* the levels above n are gone, each is a Dedent emitted or pending, and an
\* Error is emitted exactly when the new top is not n
DedentsAtLineStart(n, tok) ==
    /\ scanner'.indent_stack = LevelsUpTo(scanner.indent_stack, n)
    /\ DedentCount(tok) + scanner'.pending_dedents = LevelsAbove(scanner.indent_stack, n)
    /\ tok.kind \in {"Dedent", "Error"}
    /\ tok.kind = "Error" <=> Last(scanner'.indent_stack) # n

\* a token request with dedents pending: one Dedent, one less pending
PendingDedentEmitted(tok) ==
    /\ tok.kind = "Dedent"
    /\ scanner'.pending_dedents = scanner.pending_dedents - 1
    /\ scanner'.indent_stack = scanner.indent_stack

\* C26: when the indent N of a line (without tabs) is lower than the stack
\* top, the lexer pops every level greater than N and emits exactly one
\* Dedent per popped level, at once or from the pending counter on the next
\* token requests, and it emits an Error if and only if the new top is not N
C26_DedentPerPoppedLevel ==
    [][(phase = "scan" /\ tokens' # tokens)
          => /\ (/\ scanner.pending_dedents = 0
                 /\ scanner.at_line_start
                 /\ ~LineIndent.has_tab
                 /\ LineIndent.count < Last(scanner.indent_stack))
                    => DedentsAtLineStart(LineIndent.count, Last(tokens'))
             /\ scanner.pending_dedents > 0 => PendingDedentEmitted(Last(tokens'))]_vars

\* a misaligned line has popped a level: the Error, then the Dedent
C26_Witness ==
    \E i \in 1..(Len(tokens) - 1) :
        /\ tokens[i].kind = "Error"
        /\ tokens[i].msg = "Indentation mismatch"
        /\ tokens[i + 1].kind = "Dedent"

\* C27: the tokens collect_semantic_tokens returns are in document order,
\* non-decreasing in (line, start column), so that no delta encode_tokens
\* computes is negative
C27_TokensInDocumentOrder ==
    feature.kind = "semantic_tokens"
       => /\ \A i \in 1..(Len(feature.tokens) - 1) :
                 \/ feature.tokens[i].line < feature.tokens[i + 1].line
                 \/ /\ feature.tokens[i].line = feature.tokens[i + 1].line
                    /\ feature.tokens[i].start_col <= feature.tokens[i + 1].start_col
          /\ \A i \in 1..Len(feature.encoded) : ~feature.encoded[i].underflow

\* the characters of a semantic token: on its line from its UTF-16 column
\* on, as many as make up its length in bytes (none if the token runs past
\* the end of its line)
TokenLineText(tok) ==
    IF tok.line < Len(LinesOf(source)) THEN LinesOf(source)[tok.line + 1] ELSE <<>>
TokenFirstChar(tok) ==
    CHOOSE k \in 0..Len(TokenLineText(tok)) :
        Utf16Units(SubSeq(TokenLineText(tok), 1, k)) = tok.start_col
TokenEnds(tok) ==
    {k \in TokenFirstChar(tok)..Len(TokenLineText(tok)) :
        ByteLen(SubSeq(TokenLineText(tok), TokenFirstChar(tok) + 1, k)) = tok.length}
TokenOnLine(tok) ==
    /\ \E k \in 0..Len(TokenLineText(tok)) :
           Utf16Units(SubSeq(TokenLineText(tok), 1, k)) = tok.start_col
    /\ TokenEnds(tok) # {}
TokenUtf16Length(tok) ==
    Utf16Units(SubSeq(TokenLineText(tok), TokenFirstChar(tok) + 1,
                      CHOOSE k \in TokenEnds(tok) : TRUE))

\* the start column a client decodes for the i-th encoded token
RECURSIVE DecodedStart(_, _)
DecodedStart(encoded, i) ==
    IF i = 1 \/ encoded[i].delta_line # 0
    THEN encoded[i].delta_start
    ELSE DecodedStart(encoded, i - 1) + encoded[i].delta_start

\* C28: for every semantic token, also on lines that hold multi-byte or
\* supplementary-plane characters, encode_tokens reports a length equal to
\* the token's count of UTF-16 code units and a start column equal to the
\* token's UTF-16 column
C28_EncodedWidthsAreUtf16 ==
    feature.kind = "semantic_tokens"
       => /\ ~feature.panic
          /\ Len(feature.encoded) = Len(feature.tokens)
          /\ \A i \in 1..Len(feature.encoded) :
                 TokenOnLine(feature.tokens[i])
                    => /\ feature.encoded[i].length = TokenUtf16Length(feature.tokens[i])
                       /\ DecodedStart(feature.encoded, i) = feature.tokens[i].start_col


(***************************************************************************)
(* Tabular arrays                                                          *)
(***************************************************************************)
\* the value of the only entry of the root object
RootValue(ast) == ast.children[1].entries[1].value

\* the value of field j in row i of a tabular document, as the parser reads it
RowValueIs(node, i, j) ==
    IF j = 1
    THEN node.kind = "Number" /\ node.value.tag = "PosInt" /\ node.value.int = i
    ELSE node.kind = "String" /\ node.value = <<RowValues[i][2]>>

\* item i is an Object of the nf header fields, in order, on row i's values
RowObjectIs(item, i, nf) ==
    /\ item.kind = "Object"
    /\ Len(item.entries) = nf
    /\ \A j \in 1..nf : /\ item.entries[j].key = FieldNames[j]
                        /\ RowValueIs(item.entries[j].value, i, j)

TabularOf(ast, nf, r) ==
    /\ ast.kind = "Document"
    /\ Len(ast.children) = 1
    /\ ast.children[1].kind = "Object"
    /\ Len(ast.children[1].entries) = 1
    /\ ast.children[1].entries[1].key = <<"t">>
    /\ RootValue(ast).kind = "Array"
    /\ RootValue(ast).form = "Tabular"
    /\ Len(RootValue(ast).items) = r
    /\ \A i \in 1..r : RowObjectIs(RootValue(ast).items[i], i, nf)

\* C29: a tabular header key[N]{f1,...}: followed by R indented rows parses
\* to an Array tagged Tabular of exactly R Objects, the entries of each being
\* the header's field names zipped in order with the values of that row
C29_TabularOneObjectPerRow ==
    \A n \in 0..MaxRows, nf \in 1..2, r \in 1..MaxRows :
        (phase = "done" /\ source = TabularDocument(n, nf, r))
            => result.ok /\ TabularOf(result.val, nf, r)


(***************************************************************************)
(* Number values                                                           *)
(***************************************************************************)
\* the NumberValue of every Number node of the tree the parser returned
NumberValues == {n.value : n \in {m \in ResultNodes : m.kind = "Number"}}

\* C30: every NegInt(n) the parser produces has n < 0, and the literal -0
\* without fraction or exponent is PosInt(0)
C30_NegIntStrictlyNegative ==
    /\ \A v \in NumberValues : v.tag = "NegInt" => v.int < 0
    /\ (phase = "done" /\ source = SrcNegZero)
          => /\ result.ok
             /\ RootValue(result.val).kind = "Number"
             /\ RootValue(result.val).value.tag = "PosInt"
             /\ RootValue(result.val).value.int = 0


(***************************************************************************)
(* Resource-exhaustion guards                                              *)
(***************************************************************************)
\* the number of containers on the longest path from n to a leaf
RECURSIVE Depth(_)
Depth(n) ==
    IF n.kind \in {"Object", "Array"}
    THEN 1 + (IF Children(n) = <<>> THEN 0
              ELSE LET ds == {Depth(Children(n)[i]) : i \in 1..Len(Children(n))}
                   IN CHOOSE d \in ds : \A e \in ds : e <= d)
    ELSE IF n.kind = "Document"
    THEN IF n.children = <<>> THEN 0 ELSE Depth(n.children[1])
    ELSE 0

ErrorKindsOf(errors) == {errors[i].kind : i \in 1..Len(errors)}
ResourceErrorKinds ==
    {"MaxDepthExceeded", "DocumentTooLarge", "TooManyArrayItems", "TooManyObjectEntries"}

\* C31: the parser enforces its resource guards: a returned tree deeper than
\* the depth limit, a source longer than the size limit, an array of more
\* items or an object of more entries than the limit comes with
\* MaxDepthExceeded, DocumentTooLarge, TooManyArrayItems or
\* TooManyObjectEntries
C31_ResourceGuardsEnforced ==
    (phase = "done" /\ result.ok)
        => /\ Depth(result.val) > DepthLimit
                => "MaxDepthExceeded" \in ErrorKindsOf(result.errors)
           /\ Len(source) > SizeLimit
                => "DocumentTooLarge" \in ErrorKindsOf(result.errors)
           /\ (\E n \in ResultNodes : n.kind = "Array" /\ Len(n.items) > ItemsLimit)
                => "TooManyArrayItems" \in ErrorKindsOf(result.errors)
           /\ (\E n \in ResultNodes : n.kind = "Object" /\ Len(n.entries) > EntriesLimit)
                => "TooManyObjectEntries" \in ErrorKindsOf(result.errors)


\* the lock h is suspended at cannot be granted now
MadeToWait(h) ==
    \/ handler[h].pc = "map_write" /\ ~CanWrite(map_lock)
    \/ handler[h].pc = "get_document" /\ ~CanRead(map_lock)
    \/ handler[h].pc = "doc_write" /\ ~CanWrite(doc_lock[handler[h].arc])
    \/ handler[h].pc = "doc_read" /\ ~CanRead(doc_lock[handler[h].arc])

\* g holds the lock h is suspended at
HoldsAwaited(g, h) ==
    IF handler[h].pc \in {"map_write", "get_document"}
    THEN map_lock.writer = g \/ g \in map_lock.readers
    ELSE /\ handler[h].pc \in {"doc_write", "doc_read"}
         /\ \/ doc_lock[handler[h].arc].writer = g
            \/ g \in doc_lock[handler[h].arc].readers

FirstDedentReturned(k, tok) ==
    /\ tok.kind = "Dedent"
    /\ scanner'.pending_dedents = k - 1

\* a token request with dedents pending returns a Dedent, counts one down
\* and reads nothing of the line
PendingDedentReturned(tok) ==
    /\ tok.kind = "Dedent"
    /\ scanner'.pending_dedents = scanner.pending_dedents - 1
    /\ scanner'.pos = scanner.pos

\* C34: when a line start pops k >= 1 indent levels, the next k tokens the
\* lexer returns are Dedent tokens, one per token request (the first at once,
\* the others from the pending counter), before any of the line's content
C34_NextTokensAreDedents ==
    [][(phase = "scan" /\ tokens' # tokens)
          => /\ (/\ scanner.pending_dedents = 0
                 /\ scanner.at_line_start
                 /\ ~LineIndent.has_tab
                 /\ LevelsAbove(scanner.indent_stack, LineIndent.count) >= 1)
                    => FirstDedentReturned(
                           LevelsAbove(scanner.indent_stack, LineIndent.count),
                           Last(tokens'))
             /\ scanner.pending_dedents > 0 => PendingDedentReturned(Last(tokens'))]_vars


(***************************************************************************)
(* The scanner as an iterator (impl Iterator for Scanner): tokens holds    *)
(* the items yielded so far, phase is "exhausted" once next returned None. *)
(***************************************************************************)
IterInit ==
    /\ source \in Inputs
    /\ scanner = ScannerNew
    /\ tokens = <<>>
    /\ phase = "iter"
    /\ result = NoResult
    /\ cli = CliNew
    /\ bridge = NoBridge
    /\ feature = NoFeature
    /\ StoreNew

\* the done flag is never set
NeverDone(token) == FALSE
\* matches!(token.kind, TokenKind::Eof)
MarkDone(token) == token.kind = "Eof"

\* next with done unset: Some(next_token()), done set after Eof
IterSome ==
    /\ phase = "iter"
    /\ ~scanner.done
    /\ LET Yield(n) == /\ scanner' = [n.s EXCEPT !.done = MarkDone(n.tok)]
                        /\ tokens' = Append(tokens, n.tok)
       IN Yield(NextToken(source, scanner))
    /\ UNCHANGED <<source, phase, result, cli, bridge, feature>>
    /\ UNCHANGED svars

\* next with done set: None
IterNone ==
    /\ phase = "iter"
    /\ scanner.done
    /\ phase' = "exhausted"
    /\ UNCHANGED <<source, scanner, tokens, result, cli, bridge, feature>>
    /\ UNCHANGED svars

IterNext == IterSome \/ IterNone

IterSpec == IterInit /\ [][IterNext]_vars

\* the vector ends in Eof and holds no other Eof
EndsInOnlyEof(v) ==
    /\ Len(v) >= 1
    /\ \A i \in 1..Len(v) : v[i].kind = "Eof" <=> i = Len(v)

\* C35: iterating the scanner yields Eof exactly once, as the last item (no
\* item follows an Eof, the iteration ends, and it ends after an Eof), and
\* scan_all returns a vector that ends in Eof and holds no other Eof
C35_EofOnceAndLast ==
    /\ \A i \in 1..Len(tokens) : tokens[i].kind = "Eof" => i = Len(tokens)
    /\ Len(tokens) <= 3 * Len(source) + 1
    /\ phase = "exhausted" => EndsInOnlyEof(tokens)
    /\ EndsInOnlyEof(ScanAll(source))

\* the iteration of a document with a nested block has ended
C35_Witness ==
    /\ phase = "exhausted"
    /\ Len(tokens) > 3
    /\ \E i \in 1..Len(tokens) : tokens[i].kind = "Indent"


\* the stack is not empty, its bottom is 0 and it ascends strictly
StackAscending(stack) ==
    /\ Len(stack) >= 1
    /\ stack[1] = 0
    /\ \A i \in 1..(Len(stack) - 1) : stack[i] < stack[i + 1]

\* C36: at every point while lexing, the indent stack is non-empty, its
\* bottom element is 0 and its elements ascend strictly from bottom to top
C36_IndentStackAscending == StackAscending(scanner.indent_stack)

\* levels were pushed, one was popped again, and a level above 0 is left
C36_Witness ==
    /\ Len(scanner.indent_stack) >= 2
    /\ \E i \in 1..Len(tokens) : tokens[i].kind = "Dedent"


\* the number of tokens of the kind
CountKind(toks, kind) == Cardinality({i \in 1..Len(toks) : toks[i].kind = kind})
\* the keys of the entries of an object, in order
KeysOf(node) == [i \in 1..Len(node.entries) |-> node.entries[i].key]

\* C37: a blank line (empty or spaces only) inside an indented block does
\* not change the indentation level: the block's Indent is the only Indent,
\* no Dedent is emitted, and the entries before and after the blank line are
\* in the same object
C37_BlankLineKeepsLevel ==
    \A blank \in BlankLines :
        (phase = "done" /\ source = BlankLineDocument(blank))
            => /\ CountKind(tokens, "Indent") = 1
               /\ CountKind(tokens, "Dedent") = 0
               /\ result.ok
               /\ RootValue(result.val).kind = "Object"
               /\ KeysOf(RootValue(result.val)) = <<<<"b">>, <<"c">>>>


\* the tokens of kind among toks[from..Len(toks)]
CountKindFrom(toks, kind, from) ==
    Cardinality({i \in from..Len(toks) : toks[i].kind = kind})

\* C38: in the token vector of scan_all every Indent is matched by a later
\* Dedent before Eof (from any Indent on, as many Dedents follow as Indents
\* are open), so the numbers of Indent and of Dedent tokens are equal,
\* whether or not the input ends with a newline
C38_IndentsMatchedByDedents ==
    phase \in {"parse", "done", "hung"}
        => /\ \A i \in 1..Len(tokens) :
                  tokens[i].kind = "Indent"
                      => CountKindFrom(tokens, "Dedent", i + 1)
                             >= CountKindFrom(tokens, "Indent", i)
           /\ CountKind(tokens, "Indent") = CountKind(tokens, "Dedent")


(***************************************************************************)
(* Progress of the handlers.  A handler has no loop of its own: from one   *)
(* await to the next it either is resumed, or waits for a lock, or is in a *)
(* parse that never returns, or has panicked.  The runtime resumes every   *)
(* handler that can be resumed, so the handlers all complete unless a      *)
(* state is reached where none of them can move and one has not completed. *)
(***************************************************************************)
\* the handler is suspended at the await of a lock of the store
WaitsForLock(h) == handler[h].pc \in {"map_write", "get_document", "doc_write", "doc_read"}
HoldsLock(h) == HoldsWriteLock(h) \/ HoldsReadLock(h)
NoLockHeldWhileWaiting == \A h \in Handlers : WaitsForLock(h) => ~HoldsLock(h)

\* the runtime cannot resume the handler: it runs no handler, waits for a
\* lock that is held, never returns from the parser, or has panicked
CannotMove(h) == handler[h].pc \in {"idle", "hung", "panicked"} \/ MadeToWait(h)

\* the handler's future has finished: it returned, or it unwound in a panic
\* (its guards dropped)
HasEnded(h) == handler[h].pc \in {"idle", "done", "panicked"}

\* C32: no handler waits for a lock of the store while it holds another, and
\* the handlers that run concurrently all complete: whenever none of them
\* can move, each of them has completed
C32_HandlersAllComplete ==
    /\ NoLockHeldWhileWaiting
    /\ (\A h \in Handlers : CannotMove(h)) => (\A h \in Handlers : HasEnded(h))

=============================================================================
